---- MODULE Spec2Model ----
(***************************************************************************)
(* Notification delivery of the rbac-mcp-agent frontend.                   *)
(*                                                                         *)
(*  - the Notification Store (useNotifications: replace / upsert /         *)
(*    mark-read),                                                          *)
(*  - the effects of UserBadgeSection that consume the Store (alarm,       *)
(*    approval-needed derivation, result-available derivation, queue       *)
(*    drain, busy listener) and the notice handler processPendingNotice,   *)
(*  - the transport client startNotificationStream.                        *)
(*                                                                         *)
(* React runs the effects of one component in declaration order after a    *)
(* render, and only those whose dependencies changed.  The variable dirty  *)
(* holds the effects that still have to run; while it is non-empty no      *)
(* other callback (timer, network completion, user event) is taken, so an  *)
(* effect is never skipped and never delayed past another event.  A state  *)
(* update made by an effect is applied at once; the effects that depend on *)
(* the updated state are marked dirty, which is the re-render that React   *)
(* schedules.                                                              *)
(***************************************************************************)
EXTENDS Integers, Sequences, FiniteSets, TLC

VARIABLES
    population,         \* which notifications the server issues (fixed)
    notifications,      \* useNotifications: the Store, most recent first
    me,                 \* useAuthUser: the viewer, NoUser until loaded
    conversationBusy,   \* UserBadgeSection state
    location,           \* react-router location (pathname, conversation)
    pendingNotices,     \* UserBadgeSection state: the pending-notice queue
    handledApproval,    \* handledApprovalNotificationKeysRef
    handledResult,      \* handledPermissionResultNotificationKeysRef
    handledAlarmId,     \* handledAlarmIdRef (0 is null)
    processing,         \* processingPendingNoticeRef
    busy,               \* sessionStorage "agent:interaction_busy" = "1"
    inflight,           \* handler invocations waiting for their request
    cleanupArmed,       \* the last drain run returned a cleanup not yet run
    dirty,              \* effects whose dependencies changed
    lastEvent,          \* what the latest step did (observation only)
    alarmFired,         \* ids the alarm effect has fired for (history)
    \* ---- transport client (startNotificationStream) ----
    started,            \* startNotificationStream has been called
    cancelled,          \* closure variable cancelled
    source,             \* closure variable source and its readyState
    eventSources,       \* EventSource objects created and not closed
    fallbackPollTimer,  \* fallbackPollTimerId !== null
    fallbackIntervals,  \* fallback-poll intervals that are live
    reconcileTimer,     \* the reconcile interval is live
    reconnectTimerId,   \* reconnectTimerId !== null
    reconnectTimer,     \* the reconnect timeout is live (not cleared/fired)
    reconnectAttempt,   \* closure variable reconnectAttempt
    listeners,          \* focus / visibilitychange listeners registered
    fetches,            \* loadAndSet calls waiting for their response
    lastCall,           \* callback invoked by the latest step
    eventSourceDefined, \* typeof EventSource !== "undefined"
    visible,            \* document.visibilityState === "visible"
    reconnectDelay,     \* delay of the live reconnect timeout (0: none)
    failures,           \* onerror calls since the last onopen (history)
    lastMessage,        \* what onmessage saw in the latest step (history)
    lastUpsert,         \* argument of onUpsert in the latest step (history)
    \* ---- the server, as far as the client depends on it ----
    server,             \* the list the server holds once it has settled
    settled,            \* the server's notification set has stopped changing
    staleFetches,       \* requests under way that it received before
    stalePushes,        \* push messages under way that it sent before
    \* ---- decision panel of UserBadgeSection ----
    decisionBusy,       \* notification ids whose decision is under way
    decisionError,      \* decisionError !== null
    localDecisions,     \* request id -> "none" | "approved" | "rejected"
    decisionCalls,      \* calls of decidePermissionRequest under way
    \* ---- AgentPage ----
    noticeParam,        \* searchParams.get("notice") (NoKey: absent)
    activeConversationId, \* the conversation parameter of the route (0: null)
    conversationLoading, \* AgentPage state
    loading,            \* AgentPage state
    handledNoticeRef,   \* handledNoticeRef.current
    pendingRun,         \* conversation captured by a notice prompt under way
    noticeActions,      \* notice value -> messages injected + prompts run
    \* ---- AuthProvider: sessions ----
    token,              \* AuthProvider state (0: null), one value per login
    loads,              \* login -> loadAndSet calls of its stream under way
    markReadCalls,      \* ids whose markNotificationRead POST is under way
    loadedBy,           \* logins whose responses the Store holds (history)
    lastSessionStep,    \* what the latest session step did (history)
    logins              \* calls of login so far (history)

uiVars == <<me, conversationBusy, location, pendingNotices, handledApproval,
            handledResult, handledAlarmId, processing, busy, inflight,
            cleanupArmed, dirty, lastEvent, alarmFired>>

serverVars == <<server, settled, staleFetches, stalePushes>>

\* everything of the transport client but the argument of onUpsert
transportVars == <<started, cancelled, source, eventSources,
                   fallbackPollTimer,
                   fallbackIntervals,
                   reconcileTimer, reconnectTimerId, reconnectTimer,
                   reconnectAttempt, listeners, fetches, lastCall,
                   eventSourceDefined, visible, reconnectDelay, failures,
                   lastMessage, serverVars>>

streamVars == <<transportVars, lastUpsert>>

\* state of the components around the notification pipeline
panelVars == <<decisionBusy, decisionError, localDecisions, decisionCalls>>

pageVars == <<noticeParam, activeConversationId, conversationLoading, loading,
              handledNoticeRef, pendingRun, noticeActions>>

sessionVars == <<token, loads, markReadCalls, loadedBy, lastSessionStep,
                 logins>>

appVars == <<panelVars, pageVars, sessionVars>>

vars == <<population, notifications, uiVars, streamVars, appVars>>

(***************************************************************************)
(* Bounds                                                                  *)
(***************************************************************************)
MaxInFlight == 2       \* handler invocations tracked at once
MaxFetches == 2        \* loadAndSet calls in flight at once
MaxAttempt == 7        \* reconnectAttempt values explored
StoreSlack == 2        \* new ids upserted beyond the Store's capacity
MaxStalePushes == 2    \* push messages under way when the server settles
MaxConvergeAttempt == 1 \* consecutive failures against a settling server
MaxDecisionCalls == 2  \* calls of decidePermissionRequest under way at once
MaxNoticeActions == 2  \* messages injected + prompts run that are counted
MaxSessions == 2       \* logins
MaxLoads == 1          \* loadAndSet calls of one stream under way at once

(***************************************************************************)
(* Program constants                                                       *)
(***************************************************************************)
Capacity == 100

NoUser == [id |-> 0, isAdminApprover |-> FALSE]

\* event types the client recognises
EvCreated == "permission.request.created"
EvApproved == "permission.request.approved"
EvRejected == "permission.request.rejected"
EvAlarm == "alarm.fired"

TypeApproval == "approval_request_created"
TypeResult == "permission_request_result"

Min(a, b) == IF a < b THEN a ELSE b

(***************************************************************************)
(* The notifications the server has issued to the viewer.  An id is        *)
(* assigned once, so its event type, created_at and payload never change;  *)
(* only is_read differs between two observations of the same id.           *)
(***************************************************************************)
Payload(kind, target) == [request_kind |-> kind, target_user_id |-> target]

Notification(id, evt, at, read, payload) ==
    [id |-> id, event_type |-> evt, created_at |-> at, is_read |-> read,
     payload |-> payload]

\* what the server holds under an id, by the population it serves
Issued(pop, id, read) ==
    CASE pop = "requests" ->
           IF id = 1
           THEN Notification(1, EvCreated, "T1", read, Payload("delegation", 7))
           ELSE Notification(2, EvApproved, "T2", read, Payload("none", 0))
      [] pop = "created" ->
           IF id = 1
           THEN Notification(1, EvCreated, "T1", read, Payload("permission", 7))
           ELSE Notification(2, EvCreated, "T2", read, Payload("delegation", 9))
      [] pop = "mixed" ->
           IF id = 1
           THEN Notification(1, EvCreated, "T1", read, Payload("delegation", 7))
           ELSE Notification(2, EvAlarm, "T2", read, Payload("none", 0))
      [] OTHER ->
           Notification(id, EvAlarm, IF id = 1 THEN "T1" ELSE "T2", read,
                        Payload("none", 0))

Populations == {"requests", "created", "mixed", "alarms"}

ServerIds == {1, 2}

ServerNotifications(pop) ==
    { Issued(pop, id, r) : id \in ServerIds, r \in BOOLEAN }

\* a response of GET notifications: the ids issued so far, most recent first
ServerLists(pop) ==
    UNION { { [i \in 1..k |-> Issued(pop, k + 1 - i, read[k + 1 - i])] :
                read \in [1..k -> BOOLEAN] } : k \in 0..Cardinality(ServerIds) }

\* the delegation target, another user, and another user who holds
\* permissions:approve
Viewers ==
    { [id |-> 7, isAdminApprover |-> FALSE],
      [id |-> 9, isAdminApprover |-> FALSE],
      [id |-> 9, isAdminApprover |-> TRUE] }

Locations ==
    { [pathname |-> "/", conversation |-> 0],
      [pathname |-> "/", conversation |-> 1],
      [pathname |-> "/admin", conversation |-> 0] }

(***************************************************************************)
(* Sequence helpers (Array.prototype.find / filter / some / slice / map)   *)
(***************************************************************************)
UniqueIds(ns) == \A i, j \in 1..Len(ns) : ns[i].id = ns[j].id => i = j

\* Array.prototype.find: the least index among those that match, 0 if none
First(matching) ==
    IF matching = {} THEN 0
    ELSE CHOOSE i \in matching : \A j \in matching : i <= j

\* prev.filter((n) => n.id !== id)
WithoutId(s, id) == SelectSeq(s, LAMBDA n : n.id # id)

Slice(s, n) == SubSeq(s, 1, Min(n, Len(s)))

RemoveAt(s, i) == SubSeq(s, 1, i - 1) \o SubSeq(s, i + 1, Len(s))

(***************************************************************************)
(* Notification Store: useNotifications                                    *)
(***************************************************************************)
\* an onReplace that ignores an empty response
StoreReplaceKeeping(prev, next) == IF next = <<>> THEN prev ELSE next

\* onReplace: (next) => setNotifications(next)
StoreReplace(prev, next) == next

\* a comparison that takes the payload into account as well
isSameEventAndPayload(existing, next) ==
    /\ existing.created_at = next.created_at
    /\ existing.event_type = next.event_type
    /\ existing.is_read = next.is_read
    /\ existing.payload = next.payload

isSameEvent(existing, next) ==
    /\ existing.created_at = next.created_at
    /\ existing.event_type = next.event_type
    /\ existing.is_read = next.is_read

\* onUpsert without the slice on the insertion of a new id
StoreUpsertUntruncated(prev, next) ==
    LET i == First({ k \in 1..Len(prev) : prev[k].id = next.id })
    IN  IF i # 0
        THEN IF isSameEvent(prev[i], next)
             THEN prev
             ELSE Slice(<<next>> \o WithoutId(prev, next.id), Capacity)
        ELSE <<next>> \o prev

\* an onUpsert without the filter that removes the old entry
StoreUpsertKeepsOld(prev, next) ==
    LET i == First({ k \in 1..Len(prev) : prev[k].id = next.id })
    IN  IF i # 0 /\ isSameEvent(prev[i], next)
        THEN prev
        ELSE Slice(<<next>> \o prev, Capacity)

\* an onUpsert that overwrites an entry where it is
StoreUpsertInPlace(prev, next) ==
    LET i == First({ k \in 1..Len(prev) : prev[k].id = next.id })
    IN  IF i # 0
        THEN [prev EXCEPT ![i] = next]
        ELSE Slice(<<next>> \o prev, Capacity)

\* the updater of onUpsert
StoreUpsert(prev, next) ==
    LET i == First({ k \in 1..Len(prev) : prev[k].id = next.id })
    IN  IF i # 0
        THEN IF isSameEvent(prev[i], next)
             THEN prev
             ELSE Slice(<<next>> \o WithoutId(prev, next.id), Capacity)
        ELSE Slice(<<next>> \o prev, Capacity)

\* the updater of markNotificationRead
StoreMarkRead(prev, id) ==
    [i \in 1..Len(prev) |->
        IF prev[i].id = id THEN [prev[i] EXCEPT !.is_read = TRUE] ELSE prev[i]]

(***************************************************************************)
(* Notices: UserBadgeSection                                               *)
(***************************************************************************)
\* `${event_type}:${id}:${created_at}`
getNotificationKey(n) == <<n.event_type, n.id, n.created_at>>

\* a notice value built like the dedup key, from the event type
getNoticeValueFromEvent(type, n) == <<n.event_type, n.id, n.created_at>>

\* `${type}:${id}:${created_at}`
getNoticeValue(type, n) == <<type, n.id, n.created_at>>

PendingNotice(type, n) ==
    [type |-> type, notificationKey |-> getNotificationKey(n),
     noticeValue |-> getNoticeValue(type, n)]

\* a predicate that does not compare the delegation target with the viewer
canAutoRouteAnyDelegation(viewer, n) ==
    \/ viewer.isAdminApprover
    \/ /\ n.payload.request_kind = "delegation"
       /\ n.payload.target_user_id \in Nat

canAutoRouteToApprovals(viewer, n) ==
    \/ viewer.isAdminApprover
    \/ /\ n.payload.request_kind = "delegation"
       /\ n.payload.target_user_id \in Nat
       /\ n.payload.target_user_id = viewer.id

isAgentInteractionBusy == busy

IsUnreadAlarm(n) == ~n.is_read /\ n.event_type = EvAlarm

IsActionableRequest(n) ==
    /\ ~n.is_read
    /\ n.event_type = EvCreated
    /\ getNotificationKey(n) \notin handledApproval
    /\ canAutoRouteToApprovals(me, n)

IsResultNotification(n) ==
    /\ ~n.is_read
    /\ getNotificationKey(n) \notin handledResult
    /\ n.event_type \in {EvApproved, EvRejected}

\* the updater of a derivation effect without the prev.some(...) test
AppendNoticeAlways(prev, notice) == Append(prev, notice)

\* a derivation that puts the new notice in front of the queue
AppendNoticeAtFront(prev, notice) ==
    IF \E i \in 1..Len(prev) : prev[i].notificationKey = notice.notificationKey
    THEN prev
    ELSE <<notice>> \o prev

\* prev.some(...) ? prev : [...prev, pendingNotice]
AppendNotice(prev, notice) ==
    IF \E i \in 1..Len(prev) : prev[i].notificationKey = notice.notificationKey
    THEN prev
    ELSE Append(prev, notice)

NoKey == <<"", 0, "">>

(***************************************************************************)
(* Effects of UserBadgeSection.  An effect runs when it is the first dirty *)
(* one in declaration order.                                               *)
(***************************************************************************)
EffectRank(e) ==
    CASE e = "alarm" -> 1
      [] e = "approval" -> 2
      [] e = "result" -> 3
      [] e = "drain" -> 4

Runs(e) == e \in dirty /\ \A d \in dirty : EffectRank(e) <= EffectRank(d)

Quiescent == dirty = {}

\* effects that list the value among their dependencies
NotificationsDeps == {"alarm", "approval", "result"}
MeDeps == {"approval", "result", "drain"}
ConversationBusyDeps == {"approval", "result", "drain"}
LocationDeps == {"result", "drain"}
PendingNoticesDeps == {"drain"}

\* notice is the notice parameter of the navigation the step made, if any
Event(type, key, navigated) ==
    [type |-> type, key |-> key, navigated |-> navigated, notice |-> NoKey]

\* openConversation(conversationId, {notice: notice.noticeValue})
Navigation(type, notice) ==
    [type |-> type, key |-> notice.notificationKey, navigated |-> TRUE,
     notice |-> notice.noticeValue]

NoEvent == Event("none", NoKey, FALSE)

\* notifications.find(unread alarm.fired), as an index
unreadAlarm ==
    First({ k \in 1..Len(notifications) : IsUnreadAlarm(notifications[k]) })

\* an alarm effect that waits, as the drain effect does, while the busy
\* signal is true or a notice handler is in flight
AlarmSkippedWhileBusy ==
    \/ unreadAlarm = 0
    \/ handledAlarmId = notifications[unreadAlarm].id
    \/ isAgentInteractionBusy
    \/ processing

\* the early returns of the alarm effect
AlarmSkipped ==
    unreadAlarm = 0 \/ handledAlarmId = notifications[unreadAlarm].id

AlarmEffect ==
    /\ Runs("alarm")
    /\ IF AlarmSkipped
       THEN /\ UNCHANGED <<handledAlarmId, alarmFired>>
            /\ lastEvent' = NoEvent
       ELSE /\ handledAlarmId' = notifications[unreadAlarm].id
            /\ alarmFired' = alarmFired \cup {notifications[unreadAlarm].id}
            /\ lastEvent' =
                 Event("alarm", getNotificationKey(notifications[unreadAlarm]), FALSE)
    /\ dirty' = dirty \ {"alarm"}
    /\ UNCHANGED <<population, appVars, notifications, me, conversationBusy, location,
                   pendingNotices, handledApproval, handledResult, processing,
                   busy, inflight, cleanupArmed, streamVars>>

actionableRequest ==
    First({ k \in 1..Len(notifications) : IsActionableRequest(notifications[k]) })

resultNotification ==
    First({ k \in 1..Len(notifications) : IsResultNotification(notifications[k]) })

\* the queue after the approval-needed derivation effect
DerivedApproval ==
    IF me = NoUser \/ conversationBusy \/ actionableRequest = 0
    THEN pendingNotices
    ELSE AppendNotice(pendingNotices,
                      PendingNotice(TypeApproval, notifications[actionableRequest]))

\* the queue after the result-available derivation effect
DerivedResult ==
    IF me = NoUser \/ conversationBusy \/ resultNotification = 0
    THEN pendingNotices
    ELSE AppendNotice(pendingNotices,
                      PendingNotice(TypeResult, notifications[resultNotification]))

Derive(effect, queue) ==
    /\ Runs(effect)
    /\ pendingNotices' = queue
    /\ dirty' = (dirty \ {effect})
                  \cup (IF queue # pendingNotices THEN PendingNoticesDeps ELSE {})
    /\ lastEvent' = NoEvent
    /\ UNCHANGED <<population, appVars, notifications, me, conversationBusy, location,
                   handledApproval, handledResult, handledAlarmId, processing,
                   busy, inflight, cleanupArmed, alarmFired,
                   streamVars>>

DeriveApprovalEffect == Derive("approval", DerivedApproval)

DeriveResultEffect == Derive("result", DerivedResult)

(***************************************************************************)
(* processPendingNotice and the queue-drain effect                         *)
(***************************************************************************)
\* processPendingNotice reaches openConversation without awaiting a request:
\* a result notice while a conversation is open on "/"
CompletesWithoutRequest(notice) ==
    /\ notice.type = TypeResult
    /\ location.pathname = "/"
    /\ location.conversation > 0

\* handledApprovalNotificationKeysRef.current.add(notice.notificationKey)
HandledApprovalAfter(notice) ==
    IF notice.type = TypeApproval
    THEN handledApproval \cup {notice.notificationKey}
    ELSE handledApproval

\* handledPermissionResultNotificationKeysRef.current.add(notice.notificationKey)
HandledResultAfter(notice) ==
    IF notice.type = TypeResult
    THEN handledResult \cup {notice.notificationKey}
    ELSE handledResult

\* openConversation(conversationId, {notice}): navigate to "/" with a conversation
Navigated(conversationId) == [pathname |-> "/", conversation |-> conversationId]

\* the drain effect if it did not read the busy signal
DrainGuardIgnoringBusy ==
    /\ me # NoUser
    /\ ~conversationBusy
    /\ ~processing
    /\ pendingNotices # <<>>

\* the drain effect if it did not read processingPendingNoticeRef
DrainGuardReentrant ==
    /\ me # NoUser
    /\ ~conversationBusy
    /\ ~isAgentInteractionBusy
    /\ pendingNotices # <<>>

\* the early returns of the drain effect
DrainGuard ==
    /\ me # NoUser
    /\ ~conversationBusy
    /\ ~processing
    /\ ~isAgentInteractionBusy
    /\ pendingNotices # <<>>

\* the cleanup returned by the previous run of the drain effect: cancelled = true
RunCleanup(runs) ==
    IF cleanupArmed /\ runs # <<>>
    THEN [runs EXCEPT ![Len(runs)].cancelled = TRUE]
    ELSE runs

Run(notice) == [notice |-> notice, cancelled |-> FALSE]

\* the drain effect with the flag cleared at the end of the try block only
processingClearedInTry(threw) == IF threw THEN processing ELSE FALSE

\* finally { processingPendingNoticeRef.current = false }
processingAfterFinally(threw) == FALSE

DrainEffect ==
    /\ Runs("drain")
    /\ IF DrainGuard /\ Len(inflight) < MaxInFlight
       THEN LET nextNotice == Head(pendingNotices)
            IN  /\ pendingNotices' = Tail(pendingNotices)
                /\ IF CompletesWithoutRequest(nextNotice)
                   THEN /\ handledResult' = HandledResultAfter(nextNotice)
                        /\ location' = Navigated(location.conversation)
                        /\ processing' = processingAfterFinally(FALSE)
                        /\ inflight' = RunCleanup(inflight)
                        /\ cleanupArmed' = FALSE
                        /\ dirty' = PendingNoticesDeps \cup LocationDeps
                        /\ lastEvent' = Navigation("dispatch", nextNotice)
                   ELSE /\ processing' = TRUE
                        /\ inflight' = Append(RunCleanup(inflight), Run(nextNotice))
                        /\ cleanupArmed' = TRUE
                        /\ dirty' = PendingNoticesDeps
                        /\ lastEvent' =
                             Event("dispatch", nextNotice.notificationKey, FALSE)
                        /\ UNCHANGED <<handledResult, location>>
       ELSE /\ inflight' = RunCleanup(inflight)
            /\ cleanupArmed' = FALSE
            /\ dirty' = dirty \ {"drain"}
            /\ lastEvent' = NoEvent
            /\ UNCHANGED <<pendingNotices, handledResult, location, processing>>
    /\ UNCHANGED <<population, appVars, notifications, me, conversationBusy,
                   handledApproval, handledAlarmId, busy, alarmFired, streamVars>>

\* the cleanup of a run that is gone sets a flag nobody reads
ArmedAfterRemoval(i) == IF i = Len(inflight) THEN FALSE ELSE cleanupArmed

\* openApprovalsConversation / createConversation resolves: the rest of
\* processPendingNotice, then the finally block of the drain effect
HandlerSucceeds(i) ==
    /\ Quiescent
    /\ i \in 1..Len(inflight)
    /\ handledApproval' = HandledApprovalAfter(inflight[i].notice)
    /\ handledResult' = HandledResultAfter(inflight[i].notice)
    /\ location' = Navigated(1)
    /\ processing' = processingAfterFinally(FALSE)
    /\ inflight' = RemoveAt(inflight, i)
    /\ cleanupArmed' = ArmedAfterRemoval(i)
    /\ dirty' = LocationDeps
    /\ lastEvent' = Navigation("navigate", inflight[i].notice)
    /\ UNCHANGED <<population, appVars, notifications, me, conversationBusy,
                   pendingNotices, handledAlarmId, busy, alarmFired,
                   streamVars>>

\* the queue after the catch block of the drain effect
Requeued(run) ==
    IF ~run.cancelled THEN <<run.notice>> \o pendingNotices ELSE pendingNotices

\* openApprovalsConversation / createConversation rejects: catch, then finally
HandlerFails(i) ==
    /\ Quiescent
    /\ i \in 1..Len(inflight)
    /\ pendingNotices' = Requeued(inflight[i])
    /\ processing' = processingAfterFinally(TRUE)
    /\ inflight' = RemoveAt(inflight, i)
    /\ cleanupArmed' = ArmedAfterRemoval(i)
    /\ dirty' = IF inflight[i].cancelled THEN {} ELSE PendingNoticesDeps
    /\ lastEvent' = Event("failed", inflight[i].notice.notificationKey, FALSE)
    /\ UNCHANGED <<population, appVars, notifications, me, conversationBusy, location,
                   handledApproval, handledResult, handledAlarmId, busy,
                   alarmFired, streamVars>>

(***************************************************************************)
(* Events that reach UserBadgeSection from outside                         *)
(***************************************************************************)
\* the Store is set to a new array: the effects that depend on it re-run
StoreChanges(next) ==
    /\ Quiescent
    /\ notifications' = next
    /\ dirty' = NotificationsDeps
    /\ lastEvent' = NoEvent
    /\ UNCHANGED <<population, appVars, me, conversationBusy, location, pendingNotices,
                   handledApproval, handledResult, handledAlarmId, processing,
                   busy, inflight, cleanupArmed, alarmFired,
                   streamVars>>

\* a reconciliation fetch completes: onReplace(res.data)
OnReplace(list) == StoreChanges(StoreReplace(notifications, list))

\* a push message arrives: onUpsert(next); a no-op upsert keeps the array
OnUpsert(next) ==
    /\ StoreUpsert(notifications, next) # notifications
    /\ StoreChanges(StoreUpsert(notifications, next))

\* POST read succeeds: the updater of markNotificationRead
MarkRead(id) == StoreChanges(StoreMarkRead(notifications, id))

\* GET /me resolves: setMe(res.data)
RefreshMe(viewer) ==
    /\ Quiescent
    /\ me = NoUser
    /\ me' = viewer
    /\ dirty' = MeDeps
    /\ lastEvent' = NoEvent
    /\ UNCHANGED <<population, appVars, notifications, conversationBusy, location,
                   pendingNotices, handledApproval, handledResult,
                   handledAlarmId, processing, busy, inflight, cleanupArmed,
                   alarmFired, streamVars>>

\* the conversations menu loads, or a conversation is being created
SetConversationBusy(value) ==
    /\ Quiescent
    /\ conversationBusy # value
    /\ conversationBusy' = value
    /\ dirty' = ConversationBusyDeps
    /\ lastEvent' = NoEvent
    /\ UNCHANGED <<population, appVars, notifications, me, location, pendingNotices,
                   handledApproval, handledResult, handledAlarmId, processing,
                   busy, inflight, cleanupArmed, alarmFired,
                   streamVars>>

\* a listener that starts the queue afresh when the busy signal changes
queueClearedOnBusyChange == <<>>

\* onInteractionBusyChanged: setPendingNotices((prev) => [...prev])
queueAfterBusyChange == [i \in 1..Len(pendingNotices) |-> pendingNotices[i]]

\* AgentPage busy-broadcast effect: sessionStorage.setItem, then the event
\* agent:interaction_busy_changed, whose listener copies the queue
BusyBroadcast(value) ==
    /\ Quiescent
    /\ busy' = value
    /\ pendingNotices' = queueAfterBusyChange
    /\ dirty' = PendingNoticesDeps
    /\ lastEvent' = NoEvent
    /\ UNCHANGED <<population, appVars, notifications, me, conversationBusy,
                   location, handledApproval, handledResult,
                   handledAlarmId, processing, inflight, cleanupArmed,
                   alarmFired, streamVars>>

\* the user (or AgentPage, consuming the notice parameter) navigates
RouteChange(to) ==
    /\ Quiescent
    /\ location' = to
    /\ dirty' = LocationDeps
    /\ lastEvent' = NoEvent
    /\ UNCHANGED <<population, appVars, notifications, me, conversationBusy,
                   pendingNotices, handledApproval, handledResult,
                   handledAlarmId, processing, busy, inflight, cleanupArmed,
                   alarmFired, streamVars>>

(***************************************************************************)
(* Specification of the Store consumers (UserBadgeSection)                 *)
(***************************************************************************)
NoMessage == [received |-> FALSE, json |-> TRUE, notificationId |-> -1]

NoNotification == Notification(0, "", "", FALSE, Payload("none", 0))

StreamHistoryIdle ==
    /\ reconnectDelay = 0
    /\ failures = 0
    /\ lastMessage = NoMessage
    /\ lastUpsert = NoNotification
    /\ server = <<>>
    /\ settled = FALSE
    /\ staleFetches = 0
    /\ stalePushes = 0

StreamIdle ==
    /\ started = FALSE
    /\ cancelled = FALSE
    /\ source = "null"
    /\ eventSources = 0
    /\ fallbackPollTimer = FALSE
    /\ fallbackIntervals = 0
    /\ reconcileTimer = FALSE
    /\ reconnectTimerId = FALSE
    /\ reconnectTimer = FALSE
    /\ reconnectAttempt = 0
    /\ listeners = FALSE
    /\ fetches = 0
    /\ lastCall = "none"
    /\ eventSourceDefined = TRUE
    /\ visible = TRUE
    /\ StreamHistoryIdle

\* payload.request_id of the request a notification is about
getPermissionRequestId(n) == 40 + n.id

RequestIds == { 40 + id : id \in ServerIds }

\* notice values a route can carry: `${type}:${id}:${created_at}`
NoticeValues ==
    { <<TypeApproval, 1, "T1">>, <<TypeResult, 2, "T2">>,
      <<TypeResult, 1, "T1">>, <<"other", 1, "T1">> }

\* AgentPage has just mounted on a route without notice
PageIdle ==
    /\ noticeParam = NoKey
    /\ activeConversationId = 0
    /\ conversationLoading = FALSE
    /\ loading = FALSE
    /\ handledNoticeRef = {}
    /\ pendingRun = -1
    /\ noticeActions = [v \in NoticeValues |-> 0]

Sessions == 1..MaxSessions

\* the first login, nothing requested yet
SessionIdle ==
    /\ token = 1
    /\ loads = [s \in Sessions |-> 0]
    /\ markReadCalls = {}
    /\ loadedBy = {}
    /\ lastSessionStep = "none"
    /\ logins = 1

\* no decision has been taken in this mount of UserBadgeSection
PanelIdle ==
    /\ decisionBusy = {}
    /\ decisionError = FALSE
    /\ localDecisions = [r \in RequestIds |-> "none"]
    /\ decisionCalls = {}

UiMounted ==
    /\ PanelIdle
    /\ PageIdle
    /\ SessionIdle
    /\ me = NoUser
    /\ conversationBusy = FALSE
    /\ location = [pathname |-> "/", conversation |-> 0]
    /\ pendingNotices = <<>>
    /\ handledApproval = {}
    /\ handledResult = {}
    /\ handledAlarmId = 0
    /\ processing = FALSE
    /\ busy = FALSE
    /\ inflight = <<>>
    /\ cleanupArmed = FALSE
    /\ dirty = {}
    /\ lastEvent = NoEvent
    /\ alarmFired = {}

Init ==
    /\ population \in Populations
    /\ notifications = <<>>
    /\ UiMounted
    /\ StreamIdle

Next ==
    \/ AlarmEffect
    \/ DeriveApprovalEffect
    \/ DeriveResultEffect
    \/ DrainEffect
    \/ \E i \in 1..MaxInFlight : HandlerSucceeds(i)
    \/ \E i \in 1..MaxInFlight : HandlerFails(i)
    \/ \E list \in ServerLists(population) : OnReplace(list)
    \/ \E next \in ServerNotifications(population) : OnUpsert(next)
    \/ \E id \in ServerIds : MarkRead(id)
    \/ \E viewer \in Viewers : RefreshMe(viewer)
    \/ \E value \in BOOLEAN : SetConversationBusy(value)
    \/ \E value \in BOOLEAN : BusyBroadcast(value)
    \/ \E to \in Locations : RouteChange(to)

Spec == Init /\ [][Next]_vars

\* React runs an effect whose dependencies changed, and a request that
\* processPendingNotice awaits is answered or fails; nothing else is bound
\* to happen
Effects ==
    \/ AlarmEffect
    \/ DeriveApprovalEffect
    \/ DeriveResultEffect
    \/ DrainEffect

Completion ==
    \E i \in 1..MaxInFlight : HandlerSucceeds(i) \/ HandlerFails(i)

SpecLive == Init /\ [][Next]_vars /\ WF_vars(Effects) /\ WF_vars(Completion)

(***************************************************************************)
(* Transport client: startNotificationStream                               *)
(*                                                                         *)
(* source is "null" or the readyState of the EventSource the closure       *)
(* holds.  An EventSource that has been closed dispatches no further       *)
(* event, and a cleared timer does not fire.                               *)
(*                                                                         *)
(* The server is not part of the program.  Until it settles it may hold    *)
(* any list, so a response or a push message may carry any notification it *)
(* has issued.  Once it has settled (its notification set has stopped      *)
(* changing) server is the list it holds; the requests it had received and *)
(* the push messages it had sent before are still under way and are stale: *)
(* staleFetches and stalePushes count them.  A request served after it has *)
(* settled is answered with server.                                        *)
(***************************************************************************)
RECONNECT_BASE_MS == 1000

RECONNECT_MAX_MS == 60000

\* Math.floor(Math.random() * 500) ranges over 0 .. JitterSpan - 1
JitterSpan == 500

\* the jitter values explored: both ends of the range and one inside
Jitters == {0, 1, JitterSpan - 1}

\* the exponential term without Math.min
exponentialUncapped(attempt) == RECONNECT_BASE_MS * (2 ^ attempt)

\* Math.min(RECONNECT_BASE_MS * (2 ** reconnectAttempt), RECONNECT_MAX_MS)
exponential(attempt) ==
    Min(RECONNECT_BASE_MS * (2 ^ attempt), RECONNECT_MAX_MS)

\* fallbackPollTimerId after startFallbackPolling()
startFallbackPolling == TRUE

\* fallbackPollTimerId after stopFallbackPolling()
stopFallbackPolling == FALSE

\* startFallbackPolling without its first test: setInterval on every call
intervalsAfterUnguardedStart == fallbackIntervals + 1

\* the live intervals after startFallbackPolling(): setInterval unless
\* fallbackPollTimerId !== null
intervalsAfterStart ==
    IF fallbackPollTimer THEN fallbackIntervals ELSE fallbackIntervals + 1

\* the live intervals after stopFallbackPolling(): clearInterval of the one
\* fallbackPollTimerId names
intervalsAfterStop ==
    IF fallbackPollTimer THEN fallbackIntervals - 1 ELSE fallbackIntervals

\* a stream that never starts its reconcile interval
reconcileNotStarted == FALSE

\* reconcileTimerId = window.setInterval(..., RECONCILE_MS)
reconcileStarted == TRUE

\* a scheduleReconnect() that gives up once an attempt has been made
ReconnectSkippedAfterFirst ==
    cancelled \/ reconnectTimerId \/ reconnectAttempt > 0

\* whether scheduleReconnect() returns early
ReconnectSkipped == cancelled \/ reconnectTimerId

\* whether connectSse() takes the branch without an EventSource
ConnectFallsBack == cancelled \/ ~eventSourceDefined

\* a raw JSON field value and what parseId makes of it (-1 is null)
Raw(type, value) == [type |-> type, value |-> value]

parseId(raw) ==
    IF raw.type \in {"number", "numeric string"} THEN raw.value ELSE -1

\* parseId(data.notification_id) ?? parseId(data.id)
notificationIdOf(msg) ==
    IF parseId(msg.notification_id) # -1
    THEN parseId(msg.notification_id)
    ELSE parseId(msg.id)

\* the message is rejected: JSON.parse throws, or !notificationId
MessageRejected(msg) ==
    \/ ~msg.json
    \/ notificationIdOf(msg) = -1
    \/ notificationIdOf(msg) = 0

\* the values a message may carry in an id field
RawIds(n) ==
    { Raw("absent", 0), Raw("text", 0), Raw("number", 0),
      Raw("number", n.id), Raw("numeric string", n.id) }

PushMessages(pop) ==
    UNION { { [json |-> j, notification_id |-> a, id |-> b, body |-> n] :
                j \in BOOLEAN,
                a \in {Raw("absent", 0), Raw("number", n.id)},
                b \in RawIds(n) } : n \in ServerNotifications(pop) }

\* the Notification handed to onUpsert
Upserted(msg) == [msg.body EXCEPT !.id = notificationIdOf(msg)]

\* what onmessage saw in event.data: whether JSON.parse returned, and the
\* value of notificationId (-1 is null, also when JSON.parse threw)
Received(msg) ==
    [received |-> TRUE, json |-> msg.json,
     notificationId |-> IF msg.json THEN notificationIdOf(msg) ELSE -1]

\* the step is not an invocation of onmessage
NotAMessage ==
    /\ lastMessage' = NoMessage
    /\ lastUpsert' = NoNotification

\* an onmessage handler that drops a rejected message without a fetch
loadAndSetSkipped == fetches

\* void loadAndSet(): one more GET under way
loadAndSetIssued == fetches + 1

\* startNotificationStream(...): lines 150-156
Start ==
    /\ ~started
    /\ started' = TRUE
    /\ fetches' = loadAndSetIssued
    /\ reconcileTimer' = reconcileStarted
    /\ listeners' = TRUE
    /\ IF ConnectFallsBack
       THEN /\ fallbackPollTimer' = startFallbackPolling
            /\ fallbackIntervals' = intervalsAfterStart
            /\ source' = source
            /\ eventSources' = eventSources
       ELSE /\ source' = "connecting"
            /\ eventSources' = eventSources + 1
            /\ UNCHANGED <<fallbackPollTimer, fallbackIntervals>>
    /\ lastCall' = "none"
    /\ NotAMessage
    /\ UNCHANGED <<population, appVars, notifications, uiVars, cancelled,
                   reconnectTimerId, reconnectTimer, reconnectAttempt,
                   eventSourceDefined, visible, reconnectDelay, failures,
                   serverVars>>

\* onopen without the reset of the attempt counter
attemptKeptAfterOpen == reconnectAttempt

\* reconnectAttempt = 0 in onopen
attemptAfterOpen == 0

\* source.onopen
SseOpen ==
    /\ source = "connecting"
    /\ fetches < MaxFetches
    /\ source' = "open"
    /\ eventSources' = eventSources
    /\ reconnectAttempt' = attemptAfterOpen
    /\ failures' = 0
    /\ fallbackPollTimer' = stopFallbackPolling
    /\ fallbackIntervals' = intervalsAfterStop
    /\ fetches' = loadAndSetIssued
    /\ lastCall' = "none"
    /\ NotAMessage
    /\ UNCHANGED <<population, appVars, notifications, uiVars, started, cancelled,
                   reconcileTimer, reconnectTimerId, reconnectTimer, listeners,
                   eventSourceDefined, visible, reconnectDelay, serverVars>>

\* source.onmessage; a settled server has no message left to send but the
\* stale ones
SseMessage(msg) ==
    /\ source = "open"
    /\ settled => stalePushes > 0
    /\ stalePushes' = IF settled THEN stalePushes - 1 ELSE stalePushes
    /\ lastMessage' = Received(msg)
    /\ IF MessageRejected(msg)
       THEN /\ fetches < MaxFetches
            /\ fetches' = loadAndSetIssued
            /\ lastCall' = "none"
            /\ lastUpsert' = NoNotification
            /\ UNCHANGED notifications
       ELSE /\ notifications' = StoreUpsert(notifications, Upserted(msg))
            /\ lastCall' = "onUpsert"
            /\ lastUpsert' = Upserted(msg)
            /\ UNCHANGED fetches
    /\ UNCHANGED <<population, appVars, uiVars, started, cancelled, source, eventSources,
                   fallbackPollTimer, fallbackIntervals, reconcileTimer,
                   reconnectTimerId,
                   reconnectTimer, reconnectAttempt, listeners,
                   eventSourceDefined, visible, reconnectDelay, failures,
                   server, settled, staleFetches>>

\* an onerror that clears the reconcile interval with the channel
reconcileClearedOnError == FALSE

\* onerror leaves reconcileTimerId alone
reconcileAfterError == reconcileTimer

\* source.onerror: close, drop, startFallbackPolling(), scheduleReconnect()
\* an onerror that keeps the failed EventSource
sourceKeptAfterError == source

\* source.close(); source = null
sourceAfterError == "null"

SseError ==
    /\ source \in {"connecting", "open"}
    /\ reconnectAttempt < MaxAttempt
    /\ source' = sourceAfterError
    /\ eventSources' =
          IF sourceAfterError = "null" THEN eventSources - 1 ELSE eventSources
    /\ fallbackPollTimer' = startFallbackPolling
    /\ fallbackIntervals' = intervalsAfterStart
    /\ failures' = failures + 1
    /\ reconcileTimer' = reconcileAfterError
    /\ IF ReconnectSkipped
       THEN UNCHANGED <<reconnectTimerId, reconnectTimer, reconnectAttempt,
                        reconnectDelay>>
       ELSE /\ \E jitter \in Jitters :
                 reconnectDelay' = exponential(reconnectAttempt) + jitter
            /\ reconnectAttempt' = reconnectAttempt + 1
            /\ reconnectTimerId' = TRUE
            /\ reconnectTimer' = TRUE
    /\ lastCall' = "none"
    /\ NotAMessage
    /\ UNCHANGED <<population, appVars, notifications, uiVars, started, cancelled,
                   listeners, fetches, eventSourceDefined,
                   visible, serverVars>>

\* the reconnect timeout fires: reconnectTimerId = null; connectSse()
ReconnectFires ==
    /\ reconnectTimer
    /\ reconnectTimer' = FALSE
    /\ reconnectTimerId' = FALSE
    /\ reconnectDelay' = 0
    /\ IF ConnectFallsBack
       THEN /\ fallbackPollTimer' = startFallbackPolling
            /\ fallbackIntervals' = intervalsAfterStart
            /\ source' = source
            /\ eventSources' = eventSources
       ELSE /\ source' = "connecting"
            /\ eventSources' = eventSources + 1
            /\ UNCHANGED <<fallbackPollTimer, fallbackIntervals>>
    /\ lastCall' = "none"
    /\ NotAMessage
    /\ UNCHANGED <<population, appVars, notifications, uiVars, started, cancelled,
                   reconcileTimer, reconnectAttempt, listeners, fetches,
                   eventSourceDefined, visible, failures, serverVars>>

\* a tick of the reconcile interval or of the fallback-poll interval
TimerTick(timer) ==
    /\ timer
    /\ fetches < MaxFetches
    /\ fetches' = loadAndSetIssued
    /\ lastCall' = "none"
    /\ NotAMessage
    /\ UNCHANGED <<population, appVars, notifications, uiVars, started, cancelled,
                   source, eventSources, fallbackPollTimer, fallbackIntervals, reconcileTimer,
                   reconnectTimerId,
                   reconnectTimer, reconnectAttempt, listeners,
                   eventSourceDefined, visible, reconnectDelay, failures,
                   serverVars>>

ReconcileTick == TimerTick(reconcileTimer)

FallbackPollTick == TimerTick(fallbackIntervals > 0)

\* whether handleVisibilityOrFocus calls loadAndSet
VisibilityFetches == ~cancelled /\ visible

\* a focus event while the listener is registered
Focus ==
    /\ listeners
    /\ fetches < MaxFetches
    /\ fetches' = IF VisibilityFetches THEN loadAndSetIssued ELSE fetches
    /\ lastCall' = "none"
    /\ NotAMessage
    /\ UNCHANGED <<population, appVars, notifications, uiVars, started, cancelled,
                   source, eventSources, fallbackPollTimer, fallbackIntervals, reconcileTimer,
                   reconnectTimerId,
                   reconnectTimer, reconnectAttempt, listeners,
                   eventSourceDefined, visible, reconnectDelay, failures,
                   serverVars>>

\* the document becomes hidden or visible; visibilitychange is delivered
\* when the listener is registered
VisibilityChange ==
    /\ started
    /\ fetches < MaxFetches
    /\ visible' = ~visible
    /\ fetches' = IF listeners /\ ~cancelled /\ visible'
                  THEN loadAndSetIssued ELSE fetches
    /\ lastCall' = "none"
    /\ NotAMessage
    /\ UNCHANGED <<population, appVars, notifications, uiVars, started, cancelled,
                   source, eventSources, fallbackPollTimer, fallbackIntervals, reconcileTimer,
                   reconnectTimerId,
                   reconnectTimer, reconnectAttempt, listeners,
                   eventSourceDefined, reconnectDelay, failures, serverVars>>

\* a hidden document in a window without the focus is brought back: the
\* browser dispatches visibilitychange and then focus, and each listener
\* call runs handleVisibilityOrFocus with the document visible
Reveal ==
    /\ started
    /\ ~visible
    /\ fetches + 1 < MaxFetches
    /\ visible' = TRUE
    /\ fetches' = IF listeners /\ ~cancelled
                  THEN loadAndSetIssued + 1 ELSE fetches
    /\ lastCall' = "none"
    /\ NotAMessage
    /\ UNCHANGED <<population, appVars, notifications, uiVars, started,
                   cancelled, source, eventSources, fallbackPollTimer, fallbackIntervals,
                   reconcileTimer, reconnectTimerId, reconnectTimer,
                   reconnectAttempt, listeners, eventSourceDefined,
                   reconnectDelay, failures, serverVars>>

\* loadAndSet if it did not read cancelled after the await
ReplaceDeliveredAlways == TRUE

\* loadAndSet after the await: whether onReplace is called
ReplaceDelivered == ~cancelled

\* what the GET of a request may be answered with: a request the server
\* received before it settled with any list it has held, a later one with
\* the list it holds
Answers(list, stale) ==
    IF stale
    THEN staleFetches > 0
    ELSE fetches > staleFetches /\ (settled => list = server)

\* the completed request is no longer under way
StaleFetchesAfter(stale) == IF stale THEN staleFetches - 1 ELSE staleFetches

\* the GET of loadAndSet resolves
FetchResolves(list) ==
    /\ fetches > 0
    /\ fetches' = fetches - 1
    /\ \E stale \in BOOLEAN :
          /\ Answers(list, stale)
          /\ staleFetches' = StaleFetchesAfter(stale)
    /\ IF ReplaceDelivered
       THEN /\ notifications' = StoreReplace(notifications, list)
            /\ lastCall' = "onReplace"
       ELSE /\ UNCHANGED notifications
            /\ lastCall' = "discarded"
    /\ NotAMessage
    /\ UNCHANGED <<population, appVars, uiVars, started, cancelled, source, eventSources,
                   fallbackPollTimer, fallbackIntervals, reconcileTimer,
                   reconnectTimerId,
                   reconnectTimer, reconnectAttempt, listeners,
                   eventSourceDefined, visible, reconnectDelay, failures,
                   server, settled, stalePushes>>

\* the GET of loadAndSet rejects: the catch keeps the Store
FetchRejects ==
    /\ fetches > 0
    /\ fetches' = fetches - 1
    /\ \E stale \in BOOLEAN :
          /\ IF stale THEN staleFetches > 0 ELSE fetches > staleFetches
          /\ staleFetches' = StaleFetchesAfter(stale)
    /\ lastCall' = "none"
    /\ NotAMessage
    /\ UNCHANGED <<population, appVars, notifications, uiVars, started, cancelled,
                   source, eventSources, fallbackPollTimer, fallbackIntervals, reconcileTimer,
                   reconnectTimerId,
                   reconnectTimer, reconnectAttempt, listeners,
                   eventSourceDefined, visible, reconnectDelay, failures,
                   server, settled, stalePushes>>

\* a stop function that leaves the reconnect timeout running
ReconnectTimerLeftRunning == reconnectTimer

\* window.clearTimeout(reconnectTimerId) in the stop function
ReconnectTimerAfterStop == FALSE

\* source.close() in the stop function
SourceAfterStop == IF source = "null" THEN "null" ELSE "closed"

\* the function startNotificationStream returns
Stop ==
    /\ started
    /\ cancelled' = TRUE
    /\ fallbackPollTimer' = stopFallbackPolling
    /\ fallbackIntervals' = intervalsAfterStop
    /\ reconcileTimer' = FALSE
    /\ reconnectTimer' = ReconnectTimerAfterStop
    /\ reconnectDelay' = IF reconnectTimer' THEN reconnectDelay ELSE 0
    /\ listeners' = FALSE
    /\ source' = SourceAfterStop
    /\ eventSources' =
          IF source \in {"connecting", "open"}
          THEN eventSources - 1
          ELSE eventSources
    /\ lastCall' = "none"
    /\ NotAMessage
    /\ UNCHANGED <<population, appVars, notifications, uiVars, started,
                   reconnectTimerId, reconnectAttempt, fetches,
                   eventSourceDefined, visible, failures, serverVars>>

StreamInit ==
    /\ population \in Populations
    /\ notifications = <<>>
    /\ UiMounted
    /\ started = FALSE
    /\ cancelled = FALSE
    /\ source = "null"
    /\ eventSources = 0
    /\ fallbackPollTimer = FALSE
    /\ fallbackIntervals = 0
    /\ reconcileTimer = FALSE
    /\ reconnectTimerId = FALSE
    /\ reconnectTimer = FALSE
    /\ reconnectAttempt = 0
    /\ listeners = FALSE
    /\ fetches = 0
    /\ lastCall = "none"
    /\ eventSourceDefined \in BOOLEAN
    /\ visible \in BOOLEAN
    /\ StreamHistoryIdle

StreamNext ==
    \/ Start
    \/ SseOpen
    \/ \E msg \in PushMessages(population) : SseMessage(msg)
    \/ SseError
    \/ ReconnectFires
    \/ ReconcileTick
    \/ FallbackPollTick
    \/ Focus
    \/ VisibilityChange
    \/ Reveal
    \/ \E list \in ServerLists(population) : FetchResolves(list)
    \/ FetchRejects
    \/ Stop

SpecStream == StreamInit /\ [][StreamNext]_vars

\* refreshNotifications of useNotifications: the GET resolves and the Store
\* is set to the response.  The call reads no state, so the request and its
\* settlement are one step.
RefreshResolves(list) ==
    /\ started
    /\ ~cancelled
    /\ settled => list = server
    /\ notifications' = list
    /\ lastCall' = "none"
    /\ NotAMessage
    /\ UNCHANGED <<population, appVars, uiVars, started, cancelled, source, eventSources,
                   fallbackPollTimer, fallbackIntervals, reconcileTimer,
                   reconnectTimerId, reconnectTimer, reconnectAttempt,
                   listeners, fetches, eventSourceDefined, visible,
                   reconnectDelay, failures, serverVars>>

\* refreshNotifications: the GET rejects, catch { setNotifications([]) }
RefreshRejects ==
    /\ started
    /\ ~cancelled
    /\ notifications' = <<>>
    /\ lastCall' = "none"
    /\ NotAMessage
    /\ UNCHANGED <<population, appVars, uiVars, started, cancelled, source, eventSources,
                   fallbackPollTimer, fallbackIntervals, reconcileTimer,
                   reconnectTimerId, reconnectTimer, reconnectAttempt,
                   listeners, fetches, eventSourceDefined, visible,
                   reconnectDelay, failures, serverVars>>

\* useNotifications with every operation it returns: the stream it starts
\* and refreshNotifications, which no component of the application calls
\* and SpecStream therefore leaves out
HookNext ==
    \/ StreamNext
    \/ \E list \in ServerLists(population) : RefreshResolves(list)
    \/ RefreshRejects

SpecHook == StreamInit /\ [][HookNext]_vars

\* The transport client with timers that fire: a reconnect timeout that is
\* pending and not cleared runs its callback.
SpecReconnect == StreamInit /\ [][StreamNext]_vars /\ WF_vars(ReconnectFires)

(***************************************************************************)
(* The transport client against a server that settles.  The reconcile      *)
(* interval keeps ticking while the stream runs, and a request is answered *)
(* in the end: every GET completes, and of the GETs that keep being issued *)
(* some succeed.                                                           *)
(***************************************************************************)
\* the server's notification set stops changing; what it received or sent
\* before is still under way
Settle(list, pushes) ==
    /\ ~settled
    /\ settled' = TRUE
    /\ server' = list
    /\ staleFetches' = fetches
    /\ stalePushes' = pushes
    /\ lastCall' = "none"
    /\ NotAMessage
    /\ UNCHANGED <<population, appVars, notifications, uiVars, started, cancelled,
                   source, eventSources, fallbackPollTimer, fallbackIntervals, reconcileTimer,
                   reconnectTimerId,
                   reconnectTimer, reconnectAttempt, listeners, fetches,
                   eventSourceDefined, visible, reconnectDelay, failures>>

\* onerror, for a bounded number of consecutive failures
ConvergeError == reconnectAttempt < MaxConvergeAttempt /\ SseError

ConvergeNext ==
    \/ Start
    \/ SseOpen
    \/ \E msg \in PushMessages(population) : SseMessage(msg)
    \/ ConvergeError
    \/ ReconnectFires
    \/ ReconcileTick
    \/ FallbackPollTick
    \/ Focus
    \/ VisibilityChange
    \/ Reveal
    \/ \E list \in ServerLists(population) : FetchResolves(list)
    \/ FetchRejects
    \/ Stop
    \/ \E list \in ServerLists(population), pushes \in 0..MaxStalePushes :
          Settle(list, pushes)

\* the Store treats every event type alike: one population is enough
ConvergeInit == StreamInit /\ population = "requests"

SpecConverge ==
    /\ ConvergeInit
    /\ [][ConvergeNext]_vars
    /\ WF_vars(Start)
    /\ WF_vars(ReconcileTick)
    /\ SF_vars(\E list \in ServerLists(population) : FetchResolves(list))

(***************************************************************************)
(* The Store alone: sequences of upsert calls on a Store at or near its    *)
(* capacity                                                                *)
(***************************************************************************)
StoreEntry(id, read) == Notification(id, "event", "T", read, Payload("none", 0))

\* a Store of len entries with the ids len..1, most recent first
FilledStore(len) == [i \in 1..len |-> StoreEntry(len + 1 - i, FALSE)]

\* ids already held at either end of the Store, and ids not held yet
\* and the oldest id once more with another payload
UpsertInputs ==
    { StoreEntry(id, read) :
        id \in {1, Capacity} \cup (Capacity + 1)..(Capacity + StoreSlack),
        read \in BOOLEAN }
    \cup { [StoreEntry(1, read) EXCEPT !.payload = Payload("delegation", 7)] :
              read \in BOOLEAN }

StoreInit ==
    /\ population = "requests"
    /\ notifications \in { FilledStore(len) : len \in {0, Capacity - 1, Capacity} }
    /\ UiMounted
    /\ StreamIdle

UpsertCall(next) ==
    /\ notifications' = StoreUpsert(notifications, next)
    /\ lastUpsert' = next
    /\ UNCHANGED <<population, appVars, uiVars, transportVars>>

StoreNext == \E next \in UpsertInputs : UpsertCall(next)

SpecStore == StoreInit /\ [][StoreNext]_vars

(***************************************************************************)
(* Decision panel: decidePermissionRequest and markNotificationRead.       *)
(* The Store holds a response of the server and the viewer is loaded.  The *)
(* effects of UserBadgeSection that re-run after the Store changed are the *)
(* subject of Spec and are left out here.                                  *)
(***************************************************************************)
Decisions == {"approve", "reject"}

\* decision === "approve" ? "approved" : "rejected"
Recorded(decision) == IF decision = "approve" THEN "approved" ELSE "rejected"

DecisionCall(notificationId, decision, phase) ==
    [notificationId |-> notificationId,
     requestId |-> 40 + notificationId,
     decision |-> decision,
     phase |-> phase]

\* the panel renders enabled Approve / Reject buttons for the notification
CanDecide(n) ==
    /\ n.event_type = EvCreated
    /\ ~n.is_read
    /\ canAutoRouteToApprovals(me, n)
    /\ localDecisions[getPermissionRequestId(n)] = "none"
    /\ n.id \notin decisionBusy

\* decidePermissionRequest up to its first await
Decide(k, decision) ==
    /\ k \in 1..Len(notifications)
    /\ CanDecide(notifications[k])
    /\ Cardinality(decisionCalls) < MaxDecisionCalls
    /\ decisionError' = FALSE
    /\ decisionBusy' = decisionBusy \cup {notifications[k].id}
    /\ decisionCalls' = decisionCalls
          \cup {DecisionCall(notifications[k].id, decision, "deciding")}
    /\ UNCHANGED <<population, pageVars, sessionVars, notifications, uiVars, streamVars,
                   localDecisions>>

\* the approve / reject POST resolves: setLocalDecisions, then
\* markNotificationRead is awaited
DecisionResolves(call) ==
    /\ call \in decisionCalls
    /\ call.phase = "deciding"
    /\ localDecisions' =
          [localDecisions EXCEPT ![call.requestId] = Recorded(call.decision)]
    /\ decisionCalls' = (decisionCalls \ {call})
          \cup {DecisionCall(call.notificationId, call.decision, "marking")}
    /\ UNCHANGED <<population, pageVars, sessionVars, notifications, uiVars, streamVars,
                   decisionBusy, decisionError>>

\* the approve / reject POST rejects: outer catch, then finally
DecisionRejects(call) ==
    /\ call \in decisionCalls
    /\ call.phase = "deciding"
    /\ decisionError' = TRUE
    /\ decisionBusy' = decisionBusy \ {call.notificationId}
    /\ decisionCalls' = decisionCalls \ {call}
    /\ UNCHANGED <<population, pageVars, sessionVars, notifications, uiVars, streamVars,
                   localDecisions>>

\* the mark-read POST of a decision resolves: the updater of
\* markNotificationRead, then finally
MarkReadResolves(call) ==
    /\ call \in decisionCalls
    /\ call.phase = "marking"
    /\ notifications' = StoreMarkRead(notifications, call.notificationId)
    /\ decisionBusy' = decisionBusy \ {call.notificationId}
    /\ decisionCalls' = decisionCalls \ {call}
    /\ UNCHANGED <<population, pageVars, sessionVars, uiVars, streamVars, decisionError,
                   localDecisions>>

\* a decidePermissionRequest whose mark-read failure reaches the outer catch
markReadFailureReported == TRUE

\* catch { /* Ignore: marking read is best-effort */ }
decisionErrorAfterMarkReadFailure == decisionError

\* the mark-read POST of a decision rejects: inner catch, then finally
MarkReadRejects(call) ==
    /\ call \in decisionCalls
    /\ call.phase = "marking"
    /\ decisionError' = decisionErrorAfterMarkReadFailure
    /\ decisionBusy' = decisionBusy \ {call.notificationId}
    /\ decisionCalls' = decisionCalls \ {call}
    /\ UNCHANGED <<population, pageVars, sessionVars, notifications, uiVars, streamVars,
                   localDecisions>>

\* onMarkRead of the panel: markNotificationRead(id), whose POST resolves
\* (the updater runs) or rejects (nothing runs)
MarkReadClicked(id, resolves) ==
    /\ \E k \in 1..Len(notifications) :
          notifications[k].id = id /\ ~notifications[k].is_read
    /\ notifications' =
          IF resolves THEN StoreMarkRead(notifications, id) ELSE notifications
    /\ UNCHANGED <<population, pageVars, sessionVars, uiVars, streamVars, appVars>>

DecideInit ==
    /\ population \in Populations
    /\ notifications \in ServerLists(population)
    /\ PanelIdle
    /\ PageIdle
    /\ SessionIdle
    /\ me \in Viewers
    /\ conversationBusy = FALSE
    /\ location = [pathname |-> "/", conversation |-> 0]
    /\ pendingNotices = <<>>
    /\ handledApproval = {}
    /\ handledResult = {}
    /\ handledAlarmId = 0
    /\ processing = FALSE
    /\ busy = FALSE
    /\ inflight = <<>>
    /\ cleanupArmed = FALSE
    /\ dirty = {}
    /\ lastEvent = NoEvent
    /\ alarmFired = {}
    /\ StreamIdle

DecideNext ==
    \/ \E k \in 1..Cardinality(ServerIds), decision \in Decisions :
          Decide(k, decision)
    \/ \E call \in decisionCalls : DecisionResolves(call)
    \/ \E call \in decisionCalls : DecisionRejects(call)
    \/ \E call \in decisionCalls : MarkReadResolves(call)
    \/ \E call \in decisionCalls : MarkReadRejects(call)
    \/ \E id \in ServerIds, resolves \in BOOLEAN : MarkReadClicked(id, resolves)

SpecDecide == DecideInit /\ [][DecideNext]_vars

(***************************************************************************)
(* Properties                                                              *)
(***************************************************************************)

\* C1: per (event_type, id, created_at) triple at most one invocation of
\* the approval-needed handler runs to completion (the spec says the handler
\* is invoked exactly once), however often the notification is re-derived,
\* also while its handler is in flight: an invocation never completes for a
\* triple that an earlier invocation has already completed for.
C1_DispatchedOncePerTriple ==
    [][(lastEvent'.type = "navigate" /\ lastEvent'.key[1] = EvCreated) =>
          lastEvent'.key \notin handledApproval]_vars

\* C2: whenever a notice is in flight, or its handler has just thrown, its
\* dedup key is already in the handled set of its kind.
C2_KeyHandledBeforeHandler ==
    /\ \A i \in 1..Len(inflight) :
          inflight[i].notice.notificationKey
              \in (IF inflight[i].notice.type = TypeApproval
                   THEN handledApproval ELSE handledResult)
    /\ lastEvent.type = "failed" =>
          lastEvent.key \in handledApproval \cup handledResult

\* C3: a drain step (pop of the head and invocation of its handler) happens
\* only while the busy signal is false, so no handler is invoked while the
\* busy signal stays true.
C3_DispatchOnlyWhenIdle == lastEvent.type = "dispatch" => ~busy

\* C3 witness: a drain step has just dispatched a notice while the user was
\* idle and a further notice is still queued.
C3_Witness ==
    /\ lastEvent.type = "dispatch"
    /\ ~busy
    /\ pendingNotices # <<>>

\* C4: at most one handler invocation is in flight in every state, and a
\* drain step pops exactly one notice and invokes exactly one handler.
C4_SingleFlight ==
    /\ [](Len(inflight) <= 1)
    /\ [][lastEvent'.type = "dispatch" =>
            /\ pendingNotices' = Tail(pendingNotices)
            /\ Len(inflight') + (IF lastEvent'.navigated THEN 1 ELSE 0)
                 = Len(inflight) + 1]_vars

\* C4 witness: a handler is in flight while another notice is queued and
\* nothing but the in-flight flag keeps the drain effect from dispatching it.
C4_Witness ==
    /\ Len(inflight) = 1
    /\ pendingNotices # <<>>
    /\ me # NoUser
    /\ ~conversationBusy
    /\ ~busy

\* C5: when a handler fails, the failed notice is back at the head of the
\* queue.
C5_FailedNoticeRequeued ==
    lastEvent.type = "failed" =>
        /\ pendingNotices # <<>>
        /\ Head(pendingNotices).notificationKey = lastEvent.key

\* C6: a notice handler navigates only while the busy signal is false.
C6_NavigateOnlyWhenIdle == lastEvent.navigated => ~busy

\* C7: once stopFn has run no resource of the stream is live in any later
\* state (reconcile interval, fallback-poll interval, reconnect timeout,
\* EventSource, focus/visibilitychange listeners), and a further call of
\* stopFn changes none of them.
C7_StopReleasesEverything ==
    /\ [](cancelled =>
            /\ ~reconcileTimer
            /\ ~fallbackPollTimer
            /\ ~reconnectTimer
            /\ ~listeners
            /\ source \in {"null", "closed"})
    /\ [][(cancelled /\ Stop) =>
            UNCHANGED <<notifications, started, cancelled, source, eventSources,
                        fallbackPollTimer, fallbackIntervals, reconcileTimer,
                   reconnectTimerId,
                        reconnectTimer, reconnectAttempt, listeners,
                        fetches>>]_vars

\* C7 witness: stopFn ran while a reconnect timeout was pending (its id is
\* still held), after a channel failure, with a fetch still in flight.
C7_Witness ==
    /\ cancelled
    /\ reconnectTimerId
    /\ reconnectAttempt > 0
    /\ fetches > 0

\* C8: after stopFn has run neither onReplace nor onUpsert is invoked.
C8_NoCallbackAfterStop == cancelled => lastCall \notin {"onReplace", "onUpsert"}

\* C8 witness: a reconciliation fetch that was in flight when stopFn ran has
\* completed and its result was discarded.
C8_Witness == cancelled /\ lastCall = "discarded"

\* C9: from a Store with unique ids and at most 100 entries, every sequence
\* of upsert calls leaves the ids unique and at most 100 entries.
C9_UniqueAndBounded ==
    /\ UniqueIds(notifications)
    /\ Len(notifications) <= Capacity

\* C9 witness: a notification with a new id was upserted into a full Store,
\* which dropped its oldest entry.
C9_Witness ==
    /\ Len(notifications) = Capacity
    /\ notifications[1].id > Capacity
    /\ notifications[Capacity].id > 1

\* C10: the alarm effect fires at most once (the spec says exactly once)
\* per notification id: it never fires for an id it has fired for before.
C10_AlarmOncePerId ==
    [][lastEvent'.type = "alarm" => lastEvent'.key[2] \notin alarmFired]_vars

\* C11: the delay of the reconnect timeout scheduled by the k-th consecutive
\* channel failure since the last successful open (k = 0, 1, ...) is
\* min(1000 * 2^k, 60000) ms plus an integer jitter in [0, 500); the attempt
\* counter equals the number of failures since the last open, so it grows
\* by one per failure and is 0 while the channel is open.
C11_ReconnectDelay ==
    /\ reconnectAttempt = failures
    /\ source = "open" => reconnectAttempt = 0
    /\ reconnectTimer =>
          /\ failures > 0
          /\ reconnectDelay - Min(1000 * (2 ^ (failures - 1)), 60000) \in 0..499

\* C11 witness: so many consecutive failures that the exponential term has
\* reached its cap, with the largest jitter.
C11_Witness ==
    /\ reconnectTimer
    /\ failures = 7
    /\ reconnectDelay = 60499

\* C12: a push message that is not parseable (JSON.parse throws, or neither
\* notification_id nor id parses) does not call onUpsert, leaves the Store
\* as it is and issues a reconciliation fetch in the same handler call.
C12_UnparseableTriggersFetch ==
    [][(lastMessage'.received
          /\ (~lastMessage'.json \/ lastMessage'.notificationId = -1)) =>
            /\ notifications' = notifications
            /\ lastCall' # "onUpsert"
            /\ lastUpsert' = NoNotification
            /\ fetches' = fetches + 1]_vars

\* C12 witness: onmessage has just handled a message that is valid JSON
\* without a parseable id while the Store held a notification.
C12_Witness ==
    /\ lastMessage.received
    /\ lastMessage.json
    /\ lastMessage.notificationId = -1
    /\ notifications # <<>>
    /\ fetches > 0

\* C13: a push message whose id parses as an integer is handed to onUpsert
\* with that id (and only a message without a parseable id is discarded).
C13_ParseableIdUpserted ==
    (lastMessage.received /\ lastMessage.json
        /\ lastMessage.notificationId # -1) =>
            /\ lastCall = "onUpsert"
            /\ lastUpsert.id = lastMessage.notificationId

\* C14: once the server's notification set has stopped changing, and while
\* the stream is not stopped, the Store eventually equals the list the
\* server holds and stays equal, whatever stale responses and stale push
\* messages arrive in between and in whatever order.
C14_Converges == <>[]((settled /\ ~cancelled) => notifications = server)

\* C14 witness: a reconciliation fetch has just made the Store equal to the
\* settled server's list of two notifications while the push channel is
\* down after a failure, and nothing stale is under way any more.
C14_Witness ==
    /\ settled
    /\ ~cancelled
    /\ Len(server) = 2
    /\ notifications = server
    /\ staleFetches = 0
    /\ stalePushes = 0
    /\ lastCall = "onReplace"
    /\ source = "null"
    /\ failures > 0

\* C15: per id the is_read flag the Store holds is monotonic: once the
\* Store holds is_read = true for an id, no replace, upsert or mark-read
\* makes it hold is_read = false for that id.
C15_ReadMonotonic ==
    [][\A i \in 1..Len(notifications) :
          notifications[i].is_read =>
              \A j \in 1..Len(notifications') :
                  notifications'[j].id = notifications[i].id =>
                      notifications'[j].is_read]_vars

\* C16: replace(L) on a Store that already holds L (the second of two
\* replace(L) in a row) leaves the Store equal to L, and the effects that
\* run after it derive no new notice and fire no alarm.
C16_ReplaceTwiceIsNoOp ==
    [][\A list \in ServerLists(population) :
          (notifications = list /\ OnReplace(list)) =>
              /\ notifications' = list
              /\ DerivedApproval' = pendingNotices'
              /\ DerivedResult' = pendingNotices'
              /\ (unreadAlarm' = 0
                    \/ handledAlarmId' = notifications'[unreadAlarm'].id)]_vars

\* C17: upsert(n) on a Store that holds an entry with n.id and the same
\* (created_at, event_type, is_read) leaves the Store unchanged: the same
\* entries in the same order with the payloads they held.
C17_SameEventUpsertIsNoOp ==
    [][(\E i \in 1..Len(notifications) :
            /\ notifications[i].id = lastUpsert'.id
            /\ notifications[i].created_at = lastUpsert'.created_at
            /\ notifications[i].event_type = lastUpsert'.event_type
            /\ notifications[i].is_read = lastUpsert'.is_read) =>
         notifications' = notifications]_vars

\* C17 witness: the latest upsert carried the id, created_at, event_type and
\* is_read of an entry the Store holds but another payload, and the Store
\* still holds the entry with its own payload.
C17_Witness ==
    \E i \in 1..Len(notifications) :
        /\ notifications[i].id = lastUpsert.id
        /\ notifications[i].created_at = lastUpsert.created_at
        /\ notifications[i].event_type = lastUpsert.event_type
        /\ notifications[i].is_read = lastUpsert.is_read
        /\ notifications[i].payload # lastUpsert.payload

\* C18: for the unread permission.request.created notification with id 1
\* and created_at T1, a delegation targeted at viewer 7, and viewer 7 without
\* permissions:approve, the derivation effect leaves exactly one
\* approval-needed notice in the queue; the value of a queued notice for that
\* notification is (approval_request_created, 1, T1), and that value is the
\* notice parameter of the navigation its handler makes.
C18_ApprovalNoticeValue ==
    /\ [](\A i \in 1..Len(pendingNotices) :
            pendingNotices[i].notificationKey = <<EvCreated, 1, "T1">> =>
                /\ pendingNotices[i].noticeValue =
                     <<"approval_request_created", 1, "T1">>
                /\ \A j \in 1..Len(pendingNotices) :
                     pendingNotices[j].notificationKey = <<EvCreated, 1, "T1">>
                        => i = j)
    /\ []((lastEvent.navigated /\ lastEvent.key = <<EvCreated, 1, "T1">>) =>
            lastEvent.notice = <<"approval_request_created", 1, "T1">>)
    /\ [][(/\ DeriveApprovalEffect
           /\ me = [id |-> 7, isAdminApprover |-> FALSE]
           /\ ~conversationBusy
           /\ <<EvCreated, 1, "T1">> \notin handledApproval
           /\ \E i \in 1..Len(notifications) :
                 /\ notifications[i].id = 1
                 /\ notifications[i].event_type = EvCreated
                 /\ ~notifications[i].is_read
                 /\ notifications[i].payload = Payload("delegation", 7)) =>
            Cardinality({ i \in 1..Len(pendingNotices') :
                            pendingNotices'[i].noticeValue =
                              <<"approval_request_created", 1, "T1">> }) = 1]_vars

\* C18 witness: the handler of the approval-needed notice has navigated with
\* the notice parameter (approval_request_created, 1, T1) for viewer 7.
C18_Witness ==
    /\ me = [id |-> 7, isAdminApprover |-> FALSE]
    /\ lastEvent.type = "navigate"
    /\ lastEvent.notice = <<"approval_request_created", 1, "T1">>

\* C19: an approval-needed notice is queued, in flight or dispatched only
\* for a viewer with authority over the request: the viewer holds
\* permissions:approve, or the request is a delegation whose target is the
\* viewer.
C19_OnlyWithAuthority ==
    \A key \in { pendingNotices[i].notificationKey : i \in 1..Len(pendingNotices) }
               \cup { inflight[i].notice.notificationKey : i \in 1..Len(inflight) }
               \cup { lastEvent.key } :
        key[1] = EvCreated =>
            \/ me.isAdminApprover
            \/ /\ Issued(population, key[2], FALSE).payload.request_kind = "delegation"
               /\ Issued(population, key[2], FALSE).payload.target_user_id = me.id

\* C19 witness: viewer 9, without permissions:approve, holds the unread
\* request of a delegation targeted at viewer 7, every effect has run and
\* no notice is queued or in flight.
C19_Witness ==
    /\ me = [id |-> 9, isAdminApprover |-> FALSE]
    /\ ~conversationBusy
    /\ dirty = {}
    /\ pendingNotices = <<>>
    /\ inflight = <<>>
    /\ \E i \in 1..Len(notifications) :
          /\ notifications[i].event_type = EvCreated
          /\ ~notifications[i].is_read
          /\ notifications[i].payload = Payload("delegation", 7)

\* C20: whenever the queue is non-empty, no handler is in flight and the
\* busy signal is false (and the viewer is loaded and no conversation is
\* being opened), a drain step eventually dispatches a notice unless one
\* of these conditions ends first: no Store, route or busy change has to
\* happen for it.
C20_DrainEventuallyRuns ==
    [](DrainGuard => <>(lastEvent.type = "dispatch" \/ ~DrainGuard))

\* C21: the in-flight flag is set exactly while a handler invocation is
\* executing, and every step in which an invocation ends, by returning or
\* by throwing, leaves the flag clear.
C21_FlagClearedAfterHandler ==
    /\ [](processing <=> inflight # <<>>)
    /\ [][Len(inflight') < Len(inflight) => ~processing']_vars

\* C21 witness: a handler has just thrown, the flag is clear and no
\* invocation is left.
C21_Witness ==
    /\ lastEvent.type = "failed"
    /\ ~processing
    /\ inflight = <<>>

\* C22: after a run of a derivation effect that got past its early returns,
\* every notification of the Store that matches the effect's predicate
\* (unread, of the effect's event types, its key unhandled, and for a
\* request one the viewer may act on) has a notice with its key in the
\* queue, not only the first such notification of the Store.
C22_EveryQualifyingQueued ==
    [][/\ (DeriveApprovalEffect /\ me # NoUser /\ ~conversationBusy) =>
            \A k \in 1..Len(notifications) :
                IsActionableRequest(notifications[k]) =>
                    \E i \in 1..Len(pendingNotices') :
                        /\ pendingNotices'[i].type = TypeApproval
                        /\ pendingNotices'[i].notificationKey
                             = getNotificationKey(notifications[k])
       /\ (DeriveResultEffect /\ me # NoUser /\ ~conversationBusy) =>
            \A k \in 1..Len(notifications) :
                IsResultNotification(notifications[k]) =>
                    \E i \in 1..Len(pendingNotices') :
                        /\ pendingNotices'[i].type = TypeResult
                        /\ pendingNotices'[i].notificationKey
                             = getNotificationKey(notifications[k])]_vars

\* C23: in every state the pending-notice queue holds no two notices with
\* the same dedup key, whether they were appended by a derivation effect or
\* put back at the head by the catch block of the drain effect.
C23_NoDuplicateKeys ==
    \A i, j \in 1..Len(pendingNotices) :
        pendingNotices[i].notificationKey = pendingNotices[j].notificationKey
            => i = j

\* C23 witness: the queue holds a result notice followed by an approval
\* notice, every effect has run and the result notification still matches
\* its predicate: the result derivation ran again after the approval notice
\* was appended and found its key queued.
C23_Witness ==
    /\ dirty = {}
    /\ me # NoUser
    /\ ~conversationBusy
    /\ Len(pendingNotices) = 2
    /\ pendingNotices[1].type = TypeResult
    /\ pendingNotices[2].type = TypeApproval
    /\ resultNotification # 0
    /\ pendingNotices[1].notificationKey
         = getNotificationKey(notifications[resultNotification])

\* C24: in every state where the push channel is open no fallback-poll
\* interval is live; a fallback-poll interval is live only while the client
\* holds no channel or one that has not opened yet, at most one is live at a
\* time, and it is the one fallbackPollTimerId names.
C24_NoPollingWhileOpen ==
    /\ source = "open" => ~fallbackPollTimer /\ fallbackIntervals = 0
    /\ fallbackIntervals > 0 => source \in {"null", "connecting"}
    /\ fallbackIntervals <= 1
    /\ fallbackPollTimer <=> fallbackIntervals = 1

\* C24 witness: the channel failed a second time in a row, so that
\* startFallbackPolling was called while the interval of the first failure
\* was live, and one interval is live.
C24_Witness ==
    /\ source = "null"
    /\ failures = 2
    /\ fallbackPollTimer
    /\ fallbackIntervals = 1

\* C25: a step in which the push channel fails leaves the client without a
\* channel, with the fallback-poll interval live and a reconnect timeout
\* pending; a started client that is not stopped and has no channel, though
\* EventSource exists, always has both; and when timers fire, such a state
\* is followed by a new connection attempt unless the stream is stopped.
C25_ReconnectAfterFailure ==
    /\ [][failures' = failures + 1 =>
            /\ source' = "null"
            /\ fallbackIntervals' = 1
            /\ reconnectTimer']_vars
    /\ []((started /\ ~cancelled /\ eventSourceDefined /\ source = "null") =>
            (fallbackIntervals = 1 /\ reconnectTimer))
    /\ ((failures > 0 /\ source = "null" /\ ~cancelled)
          ~> (source = "connecting" \/ cancelled))

\* C25 witness: after a channel failure the reconnect timeout has fired and
\* a new EventSource is connecting, the fallback-poll interval still live.
C25_Witness ==
    /\ source = "connecting"
    /\ failures > 0
    /\ ~reconnectTimer
    /\ fallbackIntervals = 1
    /\ ~cancelled

\* C26: every step in which the push channel opens sets the reconnect
\* attempt counter to 0, leaves no fallback-poll interval live and issues
\* exactly one reconciliation fetch, without calling onReplace or onUpsert
\* itself.
C26_OpenResets ==
    [][(source = "connecting" /\ source' = "open") =>
          /\ reconnectAttempt' = 0
          /\ ~fallbackPollTimer'
          /\ fallbackIntervals' = 0
          /\ fetches' = fetches + 1
          /\ notifications' = notifications]_vars

\* C26 witness: the channel is open, the attempt counter is 0, no
\* fallback-poll interval is live and the fetch of onopen is under way next
\* to the one start issued.
C26_Witness ==
    /\ source = "open"
    /\ ~cancelled
    /\ reconnectAttempt = 0
    /\ fallbackIntervals = 0
    /\ fetches = 2
    /\ lastCall = "none"

\* C27: the step that starts the stream issues one reconciliation fetch,
\* and in every state between start and stop the reconcile interval is
\* live, whatever the state of the channel; no step but stop ends it.
C27_ReconcileTimerAlwaysLive ==
    /\ []((started /\ ~cancelled) => reconcileTimer)
    /\ [][(~started /\ started') =>
            (fetches' = fetches + 1 /\ reconcileTimer')]_vars
    /\ [][(reconcileTimer /\ ~reconcileTimer') => (~cancelled /\ cancelled')]_vars

\* C27 witness: the channel has failed and a reconnect is pending (the
\* client is degraded), the stream is not stopped and the reconcile
\* interval is live.
C27_Witness ==
    /\ started
    /\ ~cancelled
    /\ source = "null"
    /\ failures = 1
    /\ reconnectTimer
    /\ reconcileTimer

\* C28: a reconciliation fetch that fails, whether issued by the stream
\* (loadAndSet) or by refreshNotifications, leaves the Store exactly as it
\* was, and the reconcile interval that will issue the next fetch stays
\* live.
C28_FailedFetchKeepsStore ==
    [][(FetchRejects \/ RefreshRejects) =>
          /\ notifications' = notifications
          /\ reconcileTimer' = reconcileTimer]_vars

\* C29 as stated: for the Store of every reachable state, every list L and
\* every notification n, replace(L) then upsert(n) yields the same Store as
\* upsert(n) then replace(L), and replace is idempotent.
C29_ReplaceUpsertCommute ==
    \A list \in ServerLists(population), n \in ServerNotifications(population) :
        /\ StoreUpsert(StoreReplace(notifications, list), n)
             = StoreReplace(StoreUpsert(notifications, n), list)
        /\ StoreReplace(StoreReplace(notifications, list), list)
             = StoreReplace(notifications, list)

\* C29 amended: replace is idempotent and absorbs an earlier upsert, that
\* is, upsert(n) then replace(L) yields L; replace(L) then upsert(n) yields
\* upsert(n) applied to L; and the two orders yield the same Store exactly
\* when L holds an entry with the id of n and the same (created_at,
\* event_type, is_read).
C29_ReplaceAbsorbsUpsert ==
    \A list \in ServerLists(population), n \in ServerNotifications(population) :
        /\ StoreReplace(StoreReplace(notifications, list), list) = list
        /\ StoreReplace(StoreUpsert(notifications, n), list) = list
        /\ StoreUpsert(StoreReplace(notifications, list), n)
             = StoreUpsert(list, n)
        /\ (StoreUpsert(StoreReplace(notifications, list), n)
              = StoreReplace(StoreUpsert(notifications, n), list))
             <=> \E i \in 1..Len(list) :
                    /\ list[i].id = n.id
                    /\ list[i].created_at = n.created_at
                    /\ list[i].event_type = n.event_type
                    /\ list[i].is_read = n.is_read

\* C29 witness: onUpsert has just put its notification at the front of a
\* Store of two, and the Store is in an order no response has: a replace
\* with any list would not give this Store.
C29_Witness ==
    /\ lastCall = "onUpsert"
    /\ Len(notifications) = 2
    /\ notifications[1] = lastUpsert
    /\ notifications \notin ServerLists(population)

\* C30 as stated: after every onUpsert(n) the front-most Store entry is n,
\* and after every onReplace(L) with L non-empty it is the first element
\* of L.
C30_FrontIsLatest ==
    /\ [](lastCall = "onUpsert" =>
            (notifications # <<>> /\ notifications[1] = lastUpsert))
    /\ [][\A list \in ServerLists(population) :
            (FetchResolves(list) /\ ReplaceDelivered /\ list # <<>>) =>
                notifications'[1] = list[1]]_vars

\* C30 amended: after onReplace(L) with L non-empty the front-most Store
\* entry is the first element of L; an onUpsert(n) for which the Store holds
\* an entry with the id of n and the same (created_at, event_type, is_read)
\* leaves the Store, and so its front, as it was; after every other
\* onUpsert(n) the front is n.
C30_FrontAfterChange ==
    /\ [][lastCall' = "onUpsert" =>
            IF \E i \in 1..Len(notifications) :
                  /\ notifications[i].id = lastUpsert'.id
                  /\ notifications[i].created_at = lastUpsert'.created_at
                  /\ notifications[i].event_type = lastUpsert'.event_type
                  /\ notifications[i].is_read = lastUpsert'.is_read
            THEN notifications' = notifications
            ELSE notifications'[1] = lastUpsert']_vars
    /\ [][\A list \in ServerLists(population) :
            (FetchResolves(list) /\ ReplaceDelivered /\ list # <<>>) =>
                notifications'[1] = list[1]]_vars

\* C30 witness: onUpsert was called with the notification the Store holds
\* in second place and the front is the other entry.
C30_Witness ==
    /\ lastCall = "onUpsert"
    /\ Len(notifications) = 2
    /\ notifications[2] = lastUpsert

\* C31: an upsert(n) that is not a no-op (the Store holds no entry with the
\* id of n and the same created_at, event_type and is_read) puts n at the
\* front, followed by the previous entries but the one with the id of n, in
\* their previous order and unchanged, cut after the 100th entry: nothing
\* but the old entry of that id and the tail beyond the capacity is removed.
C31_UpsertFrame ==
    [][(lastUpsert' # NoNotification
          /\ ~\E i \in 1..Len(notifications) :
                /\ notifications[i].id = lastUpsert'.id
                /\ notifications[i].created_at = lastUpsert'.created_at
                /\ notifications[i].event_type = lastUpsert'.event_type
                /\ notifications[i].is_read = lastUpsert'.is_read) =>
         \E old \in 0..Len(notifications) :
             /\ \A i \in 1..Len(notifications) :
                    notifications[i].id = lastUpsert'.id <=> i = old
             /\ Len(notifications') =
                    IF old = 0 /\ Len(notifications) < 100
                    THEN Len(notifications) + 1
                    ELSE Len(notifications)
             /\ notifications'[1] = lastUpsert'
             /\ \A k \in 2..Len(notifications') :
                    notifications'[k] =
                        notifications[IF old # 0 /\ old < k
                                      THEN k ELSE k - 1]]_vars

\* C31 witness: a read notification with the id of the oldest entry was
\* upserted into a full Store: it is at the front, the entry that was at
\* the front is second and the Store is still full.
C31_Witness ==
    /\ Len(notifications) = Capacity
    /\ lastUpsert.id = 1
    /\ lastUpsert.is_read
    /\ notifications[1] = lastUpsert
    /\ notifications[2].id = Capacity
    /\ notifications[Capacity].id = 2

\* C32: a mark-read request of a decision that fails leaves the Store as it
\* was, keeps the decision recorded, reports no error and ends the busy
\* state of the notification; a mark-read request that succeeds, from a
\* decision or from the panel, sets is_read of the entry with that id and
\* leaves the length, the order and every other field and entry as they
\* were, and leaves the recorded decisions alone.
C32_MarkReadFrame ==
    [][/\ \A call \in decisionCalls :
            MarkReadRejects(call) =>
                /\ notifications' = notifications
                /\ localDecisions' = localDecisions
                /\ localDecisions'[call.requestId] \in {"approved", "rejected"}
                /\ decisionError' = decisionError
                /\ call.notificationId \notin decisionBusy'
       /\ \A id \in ServerIds :
            ((\E call \in decisionCalls :
                  call.notificationId = id /\ MarkReadResolves(call))
               \/ MarkReadClicked(id, TRUE)) =>
                /\ Len(notifications') = Len(notifications)
                /\ \A k \in 1..Len(notifications) :
                      /\ notifications'[k].id = notifications[k].id
                      /\ notifications'[k].event_type = notifications[k].event_type
                      /\ notifications'[k].created_at = notifications[k].created_at
                      /\ notifications'[k].payload = notifications[k].payload
                      /\ notifications'[k].is_read =
                            (notifications[k].is_read \/ notifications[k].id = id)
                /\ localDecisions' = localDecisions
                /\ decisionError' = decisionError]_vars

\* C32 witness: a decision is recorded for the request of a notification
\* that is still unread in the Store, no call is under way and no error is
\* shown: the mark-read request of that decision has failed.
C32_Witness ==
    /\ decisionCalls = {}
    /\ decisionBusy = {}
    /\ ~decisionError
    /\ \E k \in 1..Len(notifications) :
          /\ ~notifications[k].is_read
          /\ localDecisions[getPermissionRequestId(notifications[k])] = "approved"

\* C33: a step in which the document turns from hidden to visible while the
\* stream runs issues exactly one reconciliation fetch, also when the
\* window gains the focus in the same step; a focus or visibilitychange
\* event issues none while the document is hidden afterwards, and none
\* after stop.
C33_OneFetchPerReveal ==
    [][/\ (~visible /\ visible' /\ listeners /\ ~cancelled) =>
            fetches' = fetches + 1
       /\ ((Focus \/ VisibilityChange \/ Reveal) /\ (~visible' \/ cancelled)) =>
            fetches' = fetches]_vars

\* C34: every change of the Store makes the alarm effect the next step;
\* when the most recent unread alarm.fired notification of the Store is not
\* the one handled last, the effect fires for it in that step, whatever the
\* busy signal, the in-flight flag and the queue are, and the effect never
\* changes the queue, the in-flight handlers or the handled-key sets.
C34_AlarmBypassesQueue ==
    /\ [][notifications' # notifications => "alarm" \in dirty']_vars
    /\ [][("alarm" \in dirty) =>
            /\ "alarm" \notin dirty'
            /\ pendingNotices' = pendingNotices
            /\ inflight' = inflight
            /\ processing' = processing
            /\ handledApproval' = handledApproval
            /\ handledResult' = handledResult
            /\ \A k \in 1..Len(notifications) :
                  (/\ notifications[k].event_type = EvAlarm
                   /\ ~notifications[k].is_read
                   /\ \A j \in 1..(k - 1) :
                         notifications[j].event_type # EvAlarm
                           \/ notifications[j].is_read
                   /\ handledAlarmId # notifications[k].id) =>
                      /\ lastEvent'.type = "alarm"
                      /\ lastEvent'.key[2] = notifications[k].id
                      /\ handledAlarmId' = notifications[k].id]_vars

\* C34 witness: the alarm effect has just fired while the busy signal is
\* true, a notice handler is in flight and a notice is queued.
C34_Witness ==
    /\ lastEvent.type = "alarm"
    /\ busy
    /\ processing
    /\ Len(inflight) = 1
    /\ pendingNotices # <<>>

(***************************************************************************)
(* AgentPage: the consumer of the notice parameter of the route, within    *)
(* one mount of the page.  The Store changes, the loading flags toggle and *)
(* the route is navigated by the rest of the application; the notice       *)
(* effect may re-run after any of them.                                    *)
(***************************************************************************)
NoAssistantMessage == <<"null", 0>>

NoPrompt == "null"

ConversationIds == {1, 2}

\* buildNoticePrompt
buildNoticePrompt(noticeValue) ==
    IF noticeValue[1] = TypeResult THEN "explain the result" ELSE NoPrompt

\* the messages used when no notification is found for the notice
genericNoticeMessage(noticeValue) ==
    IF noticeValue[1] = TypeApproval THEN <<"a request arrived", 0>>
    ELSE IF noticeValue[1] = TypeResult THEN <<"status changed", 0>>
    ELSE NoAssistantMessage

\* buildNoticeAssistantMessage; the wordings for requester and decider are
\* one message here
buildNoticeAssistantMessage(noticeValue, list) ==
    IF \A k \in 1..Len(list) : list[k].id # noticeValue[2]
    THEN genericNoticeMessage(noticeValue)
    ELSE LET notification ==
                 list[CHOOSE k \in 1..Len(list) :
                        /\ list[k].id = noticeValue[2]
                        /\ \A j \in 1..(k - 1) : list[j].id # noticeValue[2]]
         IN  IF noticeValue[1] = TypeApproval
             THEN <<"asks for delegated access", 40 + notification.id>>
             ELSE IF noticeValue[1] = TypeResult
                       /\ notification.event_type = EvApproved
             THEN <<"was approved", notification.id>>
             ELSE IF noticeValue[1] = TypeResult
                       /\ notification.event_type = EvRejected
             THEN <<"was rejected", notification.id>>
             ELSE NoAssistantMessage

\* a notice effect that does not consult handledNoticeRef
NoticeNeverHandled == FALSE

\* handledNoticeRef.current.has(notice)
NoticeHandled == noticeParam \in handledNoticeRef

\* the early returns of the notice effect
NoticeEffectReturns ==
    \/ noticeParam = NoKey
    \/ activeConversationId = 0
    \/ conversationLoading
    \/ loading
    \/ NoticeHandled

\* the notice effect of AgentPage, up to the await of run
NoticeEffect ==
    /\ ~NoticeEffectReturns
    /\ noticeActions[noticeParam] < MaxNoticeActions
    /\ handledNoticeRef' = handledNoticeRef \cup {noticeParam}
    /\ IF buildNoticeAssistantMessage(noticeParam, notifications) # NoAssistantMessage
       THEN /\ noticeActions' =
                  [noticeActions EXCEPT ![noticeParam] = @ + 1]
            /\ noticeParam' = NoKey
            /\ UNCHANGED <<loading, pendingRun>>
       ELSE IF buildNoticePrompt(noticeParam) = NoPrompt
       THEN /\ noticeParam' = NoKey
            /\ UNCHANGED <<noticeActions, loading, pendingRun>>
       ELSE /\ noticeActions' =
                  [noticeActions EXCEPT ![noticeParam] = @ + 1]
            /\ loading' = TRUE
            /\ pendingRun' = activeConversationId
            /\ UNCHANGED noticeParam
    /\ UNCHANGED <<population, notifications, uiVars, streamVars, panelVars, sessionVars,
                   activeConversationId, conversationLoading>>

\* run(nextPrompt) has returned: setSearchParams(nextSearch, {replace: true})
NoticeRunReturns ==
    /\ pendingRun # -1
    /\ loading' = FALSE
    /\ noticeParam' = NoKey
    /\ activeConversationId' = pendingRun
    /\ pendingRun' = -1
    /\ UNCHANGED <<population, notifications, uiVars, streamVars, panelVars, sessionVars,
                   conversationLoading, handledNoticeRef, noticeActions>>

\* the route changes: openConversation of UserBadgeSection, or the viewer
NavigateTo(noticeValue, conversationId) ==
    /\ noticeParam' = noticeValue
    /\ activeConversationId' = conversationId
    /\ UNCHANGED <<population, notifications, uiVars, streamVars, panelVars, sessionVars,
                   conversationLoading, loading, handledNoticeRef, pendingRun,
                   noticeActions>>

\* the conversation load of AgentPage starts or ends
ConversationLoadingChanges ==
    /\ conversationLoading' = ~conversationLoading
    /\ UNCHANGED <<population, notifications, uiVars, streamVars, panelVars, sessionVars,
                   noticeParam, activeConversationId, loading,
                   handledNoticeRef, pendingRun, noticeActions>>

\* a run started by the viewer begins or ends
LoadingChanges ==
    /\ pendingRun = -1
    /\ loading' = ~loading
    /\ UNCHANGED <<population, notifications, uiVars, streamVars, panelVars, sessionVars,
                   noticeParam, activeConversationId, conversationLoading,
                   handledNoticeRef, pendingRun, noticeActions>>

\* the Store changes under the page
PageStoreChanges(list) ==
    /\ list # notifications
    /\ notifications' = list
    /\ UNCHANGED <<population, uiVars, streamVars, appVars>>

PageInit ==
    /\ population \in {"requests", "mixed"}
    /\ notifications \in ServerLists(population)
    /\ PanelIdle
    /\ PageIdle
    /\ SessionIdle
    /\ me \in Viewers
    /\ conversationBusy = FALSE
    /\ location = [pathname |-> "/", conversation |-> 0]
    /\ pendingNotices = <<>>
    /\ handledApproval = {}
    /\ handledResult = {}
    /\ handledAlarmId = 0
    /\ processing = FALSE
    /\ busy = FALSE
    /\ inflight = <<>>
    /\ cleanupArmed = FALSE
    /\ dirty = {}
    /\ lastEvent = NoEvent
    /\ alarmFired = {}
    /\ StreamIdle

PageNext ==
    \/ NoticeEffect
    \/ NoticeRunReturns
    \/ \E v \in NoticeValues \cup {NoKey}, c \in ConversationIds \cup {0} :
          NavigateTo(v, c)
    \/ ConversationLoadingChanges
    \/ LoadingChanges
    \/ \E list \in ServerLists(population) : PageStoreChanges(list)

SpecPage == PageInit /\ [][PageNext]_vars

\* C35: within one mount of AgentPage, for every notice value the number of
\* assistant messages injected plus prompts run for it is at most one, and
\* the notice effect acts only on a value that handledNoticeRef does not
\* hold yet, however the Store, the loading flags and the route change.
C35_NoticeConsumedOnce ==
    /\ [](\A v \in NoticeValues : noticeActions[v] <= 1)
    /\ [][\A v \in NoticeValues :
            noticeActions'[v] # noticeActions[v] =>
                /\ v \notin handledNoticeRef
                /\ v \in handledNoticeRef'
                /\ noticeParam = v]_vars

\* C35 witness: a notice value was consumed, is in the route again and the
\* guards of the effect on conversation and loading flags let it through.
C35_Witness ==
    /\ noticeParam # NoKey
    /\ noticeActions[noticeParam] = 1
    /\ activeConversationId # 0
    /\ ~conversationLoading
    /\ ~loading
    /\ pendingRun = -1

(***************************************************************************)
(* AuthProvider: login and logout around useNotifications(token).  Every   *)
(* login starts a stream with a closure of its own; the closure of a login *)
(* is cancelled from the cleanup that runs when the token changes.  The    *)
(* requests of a login carry its credential and are answered from the      *)
(* notifications of its user.                                              *)
(***************************************************************************)
SessionPopulation(s) == IF s = 1 THEN "requests" ELSE "created"

\* a loadAndSet that delivers whatever became of its stream
loadNeverCancelled(s) == FALSE

\* the closure variable cancelled of the stream the login started
loadCancelled(s) == token # s

\* login, then the effect of useNotifications: startNotificationStream,
\* whose first statement to reach the network is loadAndSet
Login ==
    /\ token = 0
    /\ logins < MaxSessions
    /\ logins' = logins + 1
    /\ token' = logins + 1
    /\ population' = SessionPopulation(logins + 1)
    /\ loads' = [loads EXCEPT ![logins + 1] = 1]
    /\ lastSessionStep' = "login"
    /\ UNCHANGED <<notifications, uiVars, streamVars, panelVars, pageVars,
                   markReadCalls, loadedBy>>

\* logout, then the cleanup and the body of the effect of useNotifications
Logout ==
    /\ token # 0
    /\ token' = 0
    /\ notifications' = <<>>
    /\ loadedBy' = {}
    /\ lastSessionStep' = "logout"
    /\ UNCHANGED <<population, uiVars, streamVars, panelVars, pageVars, loads,
                   markReadCalls, logins>>

\* a timer, a focus event or onopen of the running stream calls loadAndSet
LoadIssued ==
    /\ token # 0
    /\ loads[token] < MaxLoads
    /\ loads' = [loads EXCEPT ![token] = @ + 1]
    /\ lastSessionStep' = "load"
    /\ UNCHANGED <<population, notifications, uiVars, streamVars, panelVars,
                   pageVars, token, markReadCalls, loadedBy, logins>>

\* the GET of a loadAndSet resolves
LoadResolves(s, list) ==
    /\ loads[s] > 0
    /\ loads' = [loads EXCEPT ![s] = @ - 1]
    /\ IF loadCancelled(s)
       THEN /\ lastSessionStep' = "late load"
            /\ UNCHANGED <<notifications, loadedBy>>
       ELSE /\ notifications' = StoreReplace(notifications, list)
            /\ loadedBy' = IF list = <<>> THEN {} ELSE {s}
            /\ lastSessionStep' = "replace"
    /\ UNCHANGED <<population, uiVars, streamVars, panelVars, pageVars, token,
                   markReadCalls, logins>>

\* the GET of a loadAndSet rejects
LoadRejects(s) ==
    /\ loads[s] > 0
    /\ loads' = [loads EXCEPT ![s] = @ - 1]
    /\ lastSessionStep' = "load failed"
    /\ UNCHANGED <<population, notifications, uiVars, streamVars, panelVars,
                   pageVars, token, markReadCalls, loadedBy, logins>>

\* onmessage of the running stream: onUpsert
SessionPush(n) ==
    /\ token # 0
    /\ notifications' = StoreUpsert(notifications, n)
    /\ loadedBy' = loadedBy \cup {token}
    /\ lastSessionStep' = "upsert"
    /\ UNCHANGED <<population, uiVars, streamVars, panelVars, pageVars, token,
                   loads, markReadCalls, logins>>

\* markNotificationRead up to its await
MarkReadIssued(k) ==
    /\ token # 0
    /\ k \in 1..Len(notifications)
    /\ ~notifications[k].is_read
    /\ markReadCalls' = markReadCalls \cup {notifications[k].id}
    /\ lastSessionStep' = "mark-read"
    /\ UNCHANGED <<population, notifications, uiVars, streamVars, panelVars,
                   pageVars, token, loads, loadedBy, logins>>

\* the POST of markNotificationRead resolves: the updater runs on the Store
\* of the moment; or it rejects
MarkReadCallReturns(id, resolves) ==
    /\ id \in markReadCalls
    /\ markReadCalls' = markReadCalls \ {id}
    /\ notifications' =
          IF resolves THEN StoreMarkRead(notifications, id) ELSE notifications
    /\ lastSessionStep' = IF token = 0 THEN "late mark-read" ELSE "marked"
    /\ UNCHANGED <<population, uiVars, streamVars, panelVars, pageVars, token,
                   loads, loadedBy, logins>>

SessionInit ==
    /\ population = SessionPopulation(1)
    /\ notifications = <<>>
    /\ PanelIdle
    /\ PageIdle
    /\ token = 0
    /\ loads = [s \in Sessions |-> 0]
    /\ markReadCalls = {}
    /\ loadedBy = {}
    /\ lastSessionStep = "none"
    /\ logins = 0
    /\ me = NoUser
    /\ conversationBusy = FALSE
    /\ location = [pathname |-> "/", conversation |-> 0]
    /\ pendingNotices = <<>>
    /\ handledApproval = {}
    /\ handledResult = {}
    /\ handledAlarmId = 0
    /\ processing = FALSE
    /\ busy = FALSE
    /\ inflight = <<>>
    /\ cleanupArmed = FALSE
    /\ dirty = {}
    /\ lastEvent = NoEvent
    /\ alarmFired = {}
    /\ StreamIdle

SessionNext ==
    \/ Login
    \/ Logout
    \/ LoadIssued
    \/ \E s \in Sessions :
          \E list \in ServerLists(SessionPopulation(s)) : LoadResolves(s, list)
    \/ \E s \in Sessions : LoadRejects(s)
    \/ \E n \in ServerNotifications(population) : SessionPush(n)
    \/ \E k \in 1..Len(notifications) : MarkReadIssued(k)
    \/ \E id \in ServerIds, resolves \in BOOLEAN :
          MarkReadCallReturns(id, resolves)

SpecSession == SessionInit /\ [][SessionNext]_vars

\* C36: logout empties the Store; while no login is in force the Store is
\* empty, whatever load or mark-read issued before the logout returns; and
\* the Store never holds a response to a request of an earlier login.
C36_LogoutClearsStore ==
    /\ [](token = 0 => notifications = <<>>)
    /\ [](loadedBy \subseteq {token})
    /\ [][Logout => notifications' = <<>>]_vars
    /\ [][lastSessionStep' \in {"late load", "late mark-read", "marked"} =>
            /\ Len(notifications') = Len(notifications)
            /\ \A k \in 1..Len(notifications) :
                  notifications'[k].id = notifications[k].id]_vars

\* C36 witness: in the second login, with the Store filled by it, a load
\* that the first login issued has just resolved.
C36_Witness ==
    /\ token = 2
    /\ loadedBy = {2}
    /\ notifications # <<>>
    /\ lastSessionStep = "late load"

\* C37: at most one EventSource exists that was created and not closed, and
\* it is the one the client holds; an EventSource is created only while the
\* client holds none; a reconnect timeout is scheduled only while none is
\* pending, and is pending only while the client holds no EventSource.
C37_OneChannelOneTimeout ==
    /\ [](eventSources <= 1)
    /\ [](eventSources = 1 <=> source \in {"connecting", "open"})
    /\ [](reconnectTimer => source = "null" /\ eventSources = 0)
    /\ [][eventSources' = eventSources + 1 =>
            source = "null" /\ ~reconnectTimer']_vars
    /\ [][reconnectAttempt' = reconnectAttempt + 1 =>
            ~reconnectTimer /\ reconnectTimer']_vars

\* C37 witness: after a failure of the channel the reconnect timeout has
\* fired and connectSse has created the next EventSource.
C37_Witness ==
    /\ failures > 0
    /\ source = "connecting"
    /\ eventSources = 1
    /\ ~reconnectTimer
    /\ ~cancelled

\* C38: the queue changes in three ways only.  A derivation effect appends
\* one notice at the tail; a drain step removes the head, and the notice it
\* hands to the handler (or navigates with at once) is that head; a failed
\* handler puts its own notice back in front.  So the notices in the queue
\* never change their relative order, and a dispatch always takes the
\* notice that has been at the head.
C38_FifoDispatch ==
    /\ [][pendingNotices' # pendingNotices =>
            \/ /\ DeriveApprovalEffect \/ DeriveResultEffect
               /\ Len(pendingNotices') = Len(pendingNotices) + 1
               /\ SubSeq(pendingNotices', 1, Len(pendingNotices))
                     = pendingNotices
            \/ /\ lastEvent'.type = "dispatch"
               /\ pendingNotices # <<>>
               /\ pendingNotices' = Tail(pendingNotices)
            \/ /\ lastEvent'.type = "failed"
               /\ Tail(pendingNotices') = pendingNotices
               /\ Head(pendingNotices').notificationKey = lastEvent'.key]_vars
    /\ [][lastEvent'.type = "dispatch" =>
            /\ lastEvent'.key = Head(pendingNotices).notificationKey
            /\ IF lastEvent'.navigated
               THEN /\ lastEvent'.notice = Head(pendingNotices).noticeValue
                    /\ inflight' = RunCleanup(inflight)
               ELSE /\ inflight' # <<>>
                    /\ inflight'[Len(inflight')].notice
                         = Head(pendingNotices)]_vars

\* C38 witness: two notices were queued and the drain effect has just
\* handed the first of them to the handler; the second is the new head.
C38_Witness ==
    /\ lastEvent.type = "dispatch"
    /\ inflight # <<>>
    /\ pendingNotices # <<>>
    /\ pendingNotices[1].notificationKey # lastEvent.key
    /\ inflight[Len(inflight)].notice.notificationKey = lastEvent.key

\* C39: a step that changes the Store or the busy signal leaves the queue,
\* the in-flight handlers and the handled-key sets as they were; the effects
\* that run because of it (alarm, derivation) keep every queued notice in
\* its place and leave the handled-key sets alone; and no step ever removes
\* a key from a handled-key set.
C39_QueueAndKeysFrame ==
    /\ [][(notifications' # notifications \/ busy' # busy) =>
            /\ pendingNotices' = pendingNotices
            /\ inflight' = inflight
            /\ handledApproval' = handledApproval
            /\ handledResult' = handledResult
            /\ handledAlarmId' = handledAlarmId]_vars
    /\ [][(AlarmEffect \/ DeriveApprovalEffect \/ DeriveResultEffect) =>
            /\ Len(pendingNotices') >= Len(pendingNotices)
            /\ SubSeq(pendingNotices', 1, Len(pendingNotices))
                  = pendingNotices
            /\ handledApproval' = handledApproval
            /\ handledResult' = handledResult]_vars
    /\ [][/\ handledApproval \subseteq handledApproval'
          /\ handledResult \subseteq handledResult']_vars

\* C39 witness: the busy signal is true and the Store has just changed
\* while a notice is queued and a key is in a handled-key set.
C39_Witness ==
    /\ dirty = NotificationsDeps
    /\ lastEvent = NoEvent
    /\ busy
    /\ pendingNotices # <<>>
    /\ handledApproval \cup handledResult # {}

====
